---- MODULE Spec2Model ----
(***************************************************************************)
(* A model of cosmic-text's TextBuffer (src/src/buffer.rs) and AttrsList   *)
(* (src/src/attrs.rs): the multi-line buffer, its lazy shape/layout        *)
(* pipeline, the cursor and the TextAction state machine.                  *)
(*                                                                         *)
(* Text is a sequence of UTF-8 bytes, so that every index of the model is  *)
(* a byte offset as in the source.  A byte is written by a tag: the lead   *)
(* byte of a code point names the code point, Cont is a continuation byte. *)
(* Options are sequences: << >> is None, <<v>> is Some(v).                 *)
(***************************************************************************)
EXTENDS Integers, Sequences, FiniteSets, TLC

\* ------------------------------------------------------------------ bounds
\* Total bytes of text up to which Insert is applied, and lines up to which
\* Enter is applied, in Spec.
MaxBytes == 3
MaxLines == 2
\* The same two bounds in the editing session SpecEdit.
MaxEditBytes == 4
MaxEditLines == 3
\* SpecAttrs: the largest byte offset of a span, and the add_span calls made
\* on one list.
MaxOffset == 3
MaxSpans == 3

\* ------------------------------------------------------------- code points
\* "a": U+0061, 1 byte, Grapheme_Cluster_Break=Other, strong left-to-right.
\* "M": U+0301 COMBINING ACUTE ACCENT, 2 bytes, Extend.
\* "P": U+070F SYRIAC ABBREVIATION MARK, 2 bytes, Prepend, strong right-to-left.
\* "T": U+0009 tab, 1 byte, Control.
\* "C": U+0001, 1 byte, Control.
\* "U": U+0092 PRIVATE USE TWO, 2 bytes, Control.
Cont == "."

utf8(c) ==
  CASE c = "a" -> <<"a">>
    [] c = "M" -> <<"M", Cont>>
    [] c = "P" -> <<"P", Cont>>
    [] c = "T" -> <<"T">>
    [] c = "C" -> <<"C">>
    [] c = "U" -> <<"U", Cont>>

\* char::len_utf8
len_utf8(c) == Len(utf8(c))

\* char::is_control
is_control(c) == c \in {"T", "C", "U"}

\* Grapheme_Cluster_Break property of the code point whose lead byte is b.
GCB(b) ==
  CASE b = "M" -> "Extend"
    [] b = "P" -> "Prepend"
    [] b \in {"T", "C", "U"} -> "Control"
    [] OTHER -> "Other"

\* str::is_char_boundary
is_char_boundary(t, i) ==
  \/ i = 0
  \/ i = Len(t)
  \/ (0 < i /\ i < Len(t) /\ t[i + 1] # Cont)

\* Byte offset of the code point that ends at char boundary i > 0.
prev_char_start(t, i) ==
  CHOOSE j \in 0..(i - 1) :
    /\ t[j + 1] # Cont
    /\ \A k \in (j + 1)..(i - 1) : t[k + 1] = Cont

\* UAX #29 extended grapheme cluster boundaries (GB1-GB5, GB9, GB9b, GB999)
\* for the code points above, as unicode_segmentation computes them.
is_grapheme_boundary(t, i) ==
  \/ i = 0
  \/ i = Len(t)
  \/ /\ 0 < i /\ i < Len(t)
     /\ t[i + 1] # Cont
     /\ LET before == GCB(t[prev_char_start(t, i) + 1])
            after == GCB(t[i + 1])
        IN  \/ before = "Control"
            \/ after = "Control"
            \/ (after # "Extend" /\ before # "Prepend")

\* The first grapheme boundary after i.
next_grapheme_boundary(t, i) ==
  CHOOSE j \in (i + 1)..Len(t) :
    /\ is_grapheme_boundary(t, j)
    /\ \A k \in (i + 1)..(j - 1) : ~is_grapheme_boundary(t, k)

\* str::char_indices: the byte offsets of the code points of t, in order.
RECURSIVE char_walk(_, _)
char_walk(t, i) ==
  IF i >= Len(t) THEN << >>
  ELSE IF t[i + 1] # Cont THEN <<i>> \o char_walk(t, i + 1)
  ELSE char_walk(t, i + 1)

char_indices(t) == char_walk(t, 0)

\* UnicodeSegmentation::grapheme_indices(true): <<start, byte length>> of each
\* extended grapheme cluster of t, in order.
RECURSIVE grapheme_walk(_, _)
grapheme_walk(t, i) ==
  IF i >= Len(t) THEN << >>
  ELSE LET j == next_grapheme_boundary(t, i)
       IN <<[start |-> i, len |-> j - i]>> \o grapheme_walk(t, j)

grapheme_indices(t) == grapheme_walk(t, 0)

\* ShapeLine.rtl: the paragraph direction, that of the first strong code point.
RECURSIVE first_strong_rtl(_, _)
first_strong_rtl(t, i) ==
  IF i > Len(t) THEN FALSE
  ELSE IF t[i] = "P" THEN TRUE
  ELSE IF t[i] = "a" THEN FALSE
  ELSE first_strong_rtl(t, i + 1)

\* --------------------------------------------------------------------- Color
\* Color(pub u32).  A u32 is the sequence of its 32 bits, bit 0 first; a u8 is
\* a number 0..255.
u8_as_u32(x) == [i \in 1..32 |-> IF i <= 8 THEN (x \div 2^(i - 1)) % 2 ELSE 0]

\* The low byte of a u32 (`as u8`).
u32_as_u8(v) ==
  v[1] + 2 * v[2] + 4 * v[3] + 8 * v[4] + 16 * v[5] + 32 * v[6] + 64 * v[7] + 128 * v[8]

\* <<, >>, | and & on u32.
shl(v, k) == [i \in 1..32 |-> IF i > k THEN v[i - k] ELSE 0]
shr(v, k) == [i \in 1..32 |-> IF i + k <= 32 THEN v[i + k] ELSE 0]
bitor(v, w) == [i \in 1..32 |-> IF v[i] = 1 \/ w[i] = 1 THEN 1 ELSE 0]
bitand(v, w) == [i \in 1..32 |-> IF v[i] = 1 /\ w[i] = 1 THEN 1 ELSE 0]

\* The masks 0x000000FF, 0x0000FF00, 0x00FF0000 and 0xFF000000: the byte
\* that begins at bit lo.
byte_mask(lo) == [i \in 1..32 |-> IF lo < i /\ i <= lo + 8 THEN 1 ELSE 0]

\* Fault injection for C29: rgba with the shifts of r and g exchanged.
Color_rgba_swapped(r, g, b, a) ==
  bitor(bitor(bitor(shl(u8_as_u32(a), 24), shl(u8_as_u32(r), 8)),
              shl(u8_as_u32(g), 16)),
        u8_as_u32(b))

\* Color::rgba
Color_rgba(r, g, b, a) ==
  bitor(bitor(bitor(shl(u8_as_u32(a), 24), shl(u8_as_u32(r), 16)),
              shl(u8_as_u32(g), 8)),
        u8_as_u32(b))

\* Color::rgb
Color_rgb(r, g, b) == Color_rgba(r, g, b, 255)

\* Color::r, g, b, a
Color_r(c) == u32_as_u8(shr(bitand(c, byte_mask(16)), 16))
Color_g(c) == u32_as_u8(shr(bitand(c, byte_mask(8)), 8))
Color_b(c) == u32_as_u8(bitand(c, byte_mask(0)))
Color_a(c) == u32_as_u8(shr(bitand(c, byte_mask(24)), 24))

\* ---------------------------------------------------------------- AttrsList
\* Attrs is a value type compared by equality: a tag stands for one style.
DefaultAttrs == "plain"

\* AttrsList::new
AttrsList_new(defaults) == [defaults |-> defaults, spans |-> << >>]

RemoveAt(s, i) == SubSeq(s, 1, i - 1) \o SubSeq(s, i + 1, Len(s))

\* The condensing loop of add_span; i is the 0-based loop index.
RECURSIVE condense(_, _)
condense(spans, i) ==
  IF i + 1 < Len(spans)
  THEN IF spans[i + 1].end = spans[i + 2].start /\ spans[i + 1].attrs = spans[i + 2].attrs
       THEN condense(
              [RemoveAt(spans, i + 2) EXCEPT ![i + 1].end = spans[i + 2].end], i)
       ELSE condense(spans, i + 1)
  ELSE spans

\* AttrsList::add_span
add_span(al, start, end, attrs) ==
  [al EXCEPT !.spans =
     condense(Append(al.spans, [start |-> start, end |-> end, attrs |-> attrs]), 0)]

\* AttrsList::get_span; i walks the spans in reverse.
RECURSIVE get_span_from(_, _, _, _)
get_span_from(al, start, end, i) ==
  IF i = 0 THEN al.defaults
  ELSE IF start >= al.spans[i].start /\ end <= al.spans[i].end
       THEN al.spans[i].attrs
       ELSE get_span_from(al, start, end, i - 1)

\* Fault injection for C15: get_span walking the spans from the first, so
\* that the earliest span containing the range wins.
get_span_oldest(al, start, end) ==
  LET hits == {i \in 1..Len(al.spans) :
                 start >= al.spans[i].start /\ end <= al.spans[i].end}
  IN IF hits = {} THEN al.defaults
     ELSE al.spans[CHOOSE i \in hits : \A j \in hits : i <= j].attrs

get_span(al, start, end) == get_span_from(al, start, end, Len(al.spans))

\* Fault injection for C36: the loop putting each span it gives to the
\* returned list in front of those already there, so that the order of the
\* spans, their priority, is reversed in it.
RECURSIVE split_off_loop_push_front(_, _, _, _)
split_off_loop_push_front(old, new, index, i) ==
  IF i < Len(old)
  THEN LET sp == old[i + 1]
       IN IF sp.end <= index
          THEN split_off_loop_push_front(old, new, index, i + 1)
          ELSE IF sp.start >= index
          THEN split_off_loop_push_front(
                 RemoveAt(old, i + 1),
                 <<[start |-> sp.start - index, end |-> sp.end - index,
                    attrs |-> sp.attrs]>> \o new,
                 index, i)
          ELSE split_off_loop_push_front(
                 [old EXCEPT ![i + 1].end = index],
                 <<[start |-> 0, end |-> sp.end - index, attrs |-> sp.attrs]>> \o new,
                 index, i + 1)
  ELSE [old |-> old, new |-> new]

\* Fault injection for C16: the loop stepping to the next index also after
\* it removed a span, so that the span that moved into its place is skipped.
RECURSIVE split_off_loop_skip(_, _, _, _)
split_off_loop_skip(old, new, index, i) ==
  IF i < Len(old)
  THEN LET sp == old[i + 1]
       IN IF sp.end <= index
          THEN split_off_loop_skip(old, new, index, i + 1)
          ELSE IF sp.start >= index
          THEN split_off_loop_skip(
                 RemoveAt(old, i + 1),
                 Append(new, [start |-> sp.start - index, end |-> sp.end - index,
                              attrs |-> sp.attrs]),
                 index, i + 1)
          ELSE split_off_loop_skip(
                 [old EXCEPT ![i + 1].end = index],
                 Append(new, [start |-> 0, end |-> sp.end - index, attrs |-> sp.attrs]),
                 index, i + 1)
  ELSE [old |-> old, new |-> new]

\* The loop of AttrsList::split_off; i is the 0-based loop index, old the
\* spans left in self, new the spans pushed to the returned list.
RECURSIVE split_off_loop(_, _, _, _)
split_off_loop(old, new, index, i) ==
  IF i < Len(old)
  THEN LET sp == old[i + 1]
       IN IF sp.end <= index
          THEN split_off_loop(old, new, index, i + 1)
          ELSE IF sp.start >= index
          THEN split_off_loop(
                 RemoveAt(old, i + 1),
                 Append(new, [start |-> sp.start - index, end |-> sp.end - index,
                              attrs |-> sp.attrs]),
                 index, i)
          ELSE split_off_loop(
                 [old EXCEPT ![i + 1].end = index],
                 Append(new, [start |-> 0, end |-> sp.end - index, attrs |-> sp.attrs]),
                 index, i + 1)
  ELSE [old |-> old, new |-> new]

\* AttrsList::split_off: self keeps .old, the returned list is .new.
split_off(al, index) ==
  LET r == split_off_loop(al.spans, << >>, index, 0)
  IN [old |-> [al EXCEPT !.spans = r.old],
      new |-> [defaults |-> al.defaults, spans |-> r.new]]

\* ----------------------------------------------------------- TextBufferLine
\* One paragraph: text, attrs_list, the shape cache and the layout cache.
\* TextBufferLine::new
Line_new(text, attrs_list) ==
  [text |-> text, attrs_list |-> attrs_list, shape_opt |-> << >>, layout_opt |-> << >>]

\* TextBufferLine::reset: any text or attribute mutation drops both caches.
Line_reset(line) == [line EXCEPT !.shape_opt = << >>, !.layout_opt = << >>]

\* TextBufferLine::split_off: String::split_off faults unless index is a char
\* boundary of the text; the AttrsList is split at the same offset.
Line_split_off_ok(line, index) ==
  index <= Len(line.text) /\ is_char_boundary(line.text, index)

Line_split_off(line, index) ==
  LET a == split_off(line.attrs_list, index)
  IN [line |-> Line_reset([line EXCEPT !.text = SubSeq(line.text, 1, index),
                                       !.attrs_list = a.old]),
      new |-> Line_new(SubSeq(line.text, index + 1, Len(line.text)), a.new)]

\* The spans of other re-based by len and added one by one.
RECURSIVE append_spans(_, _, _, _)
append_spans(al, spans, len, i) ==
  IF i > Len(spans) THEN al
  ELSE append_spans(
         add_span(al, spans[i].start + len, spans[i].end + len, spans[i].attrs),
         spans, len, i + 1)

\* TextBufferLine::append: the text is appended, other's spans follow it.
Line_append(line, other) ==
  LET len == Len(line.text)
      al0 == IF other.attrs_list.defaults # line.attrs_list.defaults
             THEN add_span(line.attrs_list, len, len + Len(other.text),
                           other.attrs_list.defaults)
             ELSE line.attrs_list
  IN Line_reset([line EXCEPT
       !.text = line.text \o other.text,
       !.attrs_list = append_spans(al0, other.attrs_list.spans, len, 1)])

\* ------------------------------------------------------- shaping and layout
None == << >>
Some(v) == <<v>>
Max(x, y) == IF x >= y THEN x ELSE y
Min(x, y) == IF x <= y THEN x ELSE y

RECURSIVE Reverse(_)
Reverse(s) == IF s = << >> THEN << >> ELSE Reverse(Tail(s)) \o <<Head(s)>>

\* The advance of one glyph at a font size: every glyph is font_size wide.
glyph_w(font_size) == font_size

\* Glyphs a visual row holds at a wrap width (at least one, so that layout
\* always makes progress).
row_capacity(font_size, width) == Max(1, width \div glyph_w(font_size))

\* One visual row: the clusters gs[from..to] (1-based, in text order), one
\* glyph each, laid out left to right in visual order (reversed when rtl).
layout_row(gs, from, to, rtl, font_size) ==
  LET logical == [k \in 1..(to - from + 1) |->
                    [start |-> gs[from + k - 1].start,
                     end |-> gs[from + k - 1].start + gs[from + k - 1].len,
                     rtl |-> rtl]]
      visual == IF rtl THEN Reverse(logical) ELSE logical
  IN [glyphs |-> [k \in 1..Len(visual) |->
                    [start |-> visual[k].start, end |-> visual[k].end,
                     x |-> (k - 1) * glyph_w(font_size), w |-> glyph_w(font_size),
                     rtl |-> visual[k].rtl]]]

\* ShapeLine::layout: the rows of a shaped line at a width; a line without
\* text has one row without glyphs.
shape_layout(text, rtl, font_size, width) ==
  LET gs == grapheme_indices(text)
      cap == row_capacity(font_size, width)
      rows == IF Len(gs) = 0 THEN 1 ELSE (Len(gs) + cap - 1) \div cap
  IN [r \in 1..rows |->
        layout_row(gs, (r - 1) * cap + 1, Min(r * cap, Len(gs)), rtl, font_size)]

\* TextBufferLine::shape: fills the shape cache when it is absent.
Line_shape(line) ==
  IF line.shape_opt = None
  THEN [line EXCEPT !.shape_opt = Some([rtl |-> first_strong_rtl(line.text, 1)]),
                    !.layout_opt = None]
  ELSE line

\* TextBufferLine::layout: shapes if needed and fills the layout cache when it
\* is absent; a present layout cache is returned as it is.
Line_layout(line, font_size, width) ==
  IF line.layout_opt = None
  THEN LET sh == Line_shape(line)
       IN [sh EXCEPT !.layout_opt =
             Some(shape_layout(sh.text, sh.shape_opt[1].rtl, font_size, width))]
  ELSE line

\* TextBufferLine::reset_layout
Line_reset_layout(line) == [line EXCEPT !.layout_opt = None]

\* --------------------------------------------------------------- TextBuffer
\* A buffer value b is a record of the fields of TextBuffer plus fault, which
\* is TRUE once an operation has panicked (the field values are then those at
\* the panic).
TextCursor_new(line, index) == [line |-> line, index |-> index]
TextLayoutCursor_new(line, layout, glyph) == [line |-> line, layout |-> layout, glyph |-> glyph]

\* usize::max_value(), as a row or glyph index no layout reaches.
usize_max == 1000000

\* TextBuffer::lines: the number of rows the viewport shows.
lines_visible(b) == b.height \div b.metrics.line_height

\* Fault injection for C23: the loop stopping only once more than n rows are
\* accumulated.
RECURSIVE shape_until_loop_late(_, _, _, _, _)
shape_until_loop_late(b, n, i, total, reshaped) ==
  IF i > Len(b.lines) \/ total > n
  THEN [b |-> IF reshaped > 0 THEN [b EXCEPT !.redraw = TRUE] ELSE b, total |-> total]
  ELSE LET line == Line_layout(b.lines[i], b.metrics.font_size, b.width)
       IN shape_until_loop_late(
            [b EXCEPT !.lines[i] = line], n, i + 1,
            total + Len(line.layout_opt[1]),
            IF b.lines[i].shape_opt = None THEN reshaped + 1 ELSE reshaped)

\* TextBuffer::shape_until: lays out lines from line 0 until `n` rows are
\* accumulated; .b is the buffer afterwards, .total the rows counted.
RECURSIVE shape_until_loop(_, _, _, _, _)
shape_until_loop(b, n, i, total, reshaped) ==
  IF i > Len(b.lines) \/ total >= n
  THEN [b |-> IF reshaped > 0 THEN [b EXCEPT !.redraw = TRUE] ELSE b, total |-> total]
  ELSE LET line == Line_layout(b.lines[i], b.metrics.font_size, b.width)
       IN shape_until_loop(
            [b EXCEPT !.lines[i] = line], n, i + 1,
            total + Len(line.layout_opt[1]),
            IF b.lines[i].shape_opt = None THEN reshaped + 1 ELSE reshaped)

shape_until(b, n) == shape_until_loop(b, n, 1, 0, 0)

\* Fault injection for C4: the clamp without its lower limit of 0.
clamp_scroll_no_floor(r, scroll, lines) ==
  [r.b EXCEPT !.scroll = Min(r.total - (lines - 1), scroll)]

\* The clamp that ends shape_until_scroll; r is what shape_until returned.
clamp_scroll(r, scroll, lines) ==
  [r.b EXCEPT !.scroll = Max(0, Min(r.total - (lines - 1), scroll))]

\* TextBuffer::shape_until_scroll
shape_until_scroll(b) ==
  clamp_scroll(shape_until(b, b.scroll + lines_visible(b)), b.scroll, lines_visible(b))

\* TextBuffer::layout_cursor on a line whose layout cache is present: the
\* first row, in order, with a glyph starting at the index, or whose last
\* glyph ends at it, or without glyphs; else row 0, glyph 0.
RECURSIVE layout_cursor_rows(_, _, _)
layout_cursor_rows(layout, cursor, r) ==
  IF r > Len(layout) THEN TextLayoutCursor_new(cursor.line, 0, 0)
  ELSE LET glyphs == layout[r].glyphs
           hits == {g \in 1..Len(glyphs) : cursor.index = glyphs[g].start}
       IN IF hits # {}
          THEN TextLayoutCursor_new(cursor.line, r - 1,
                 (CHOOSE g \in hits : \A h \in hits : g <= h) - 1)
          ELSE IF Len(glyphs) = 0
          THEN TextLayoutCursor_new(cursor.line, r - 1, 0)
          ELSE IF cursor.index = glyphs[Len(glyphs)].end
          THEN TextLayoutCursor_new(cursor.line, r - 1, Len(glyphs))
          ELSE layout_cursor_rows(layout, cursor, r + 1)

\* layout_cursor panics when the line does not exist or has no layout cache.
layout_cursor_ok(b, cursor) ==
  /\ cursor.line < Len(b.lines)
  /\ b.lines[cursor.line + 1].layout_opt # None

layout_cursor(b, cursor) ==
  layout_cursor_rows(b.lines[cursor.line + 1].layout_opt[1], cursor, 1)

Fault(b) == [b EXCEPT !.fault = TRUE]

\* The loop of shape_until_cursor: lays out lines 0..cursor.line; .layout_i is
\* the global row of the cursor.
RECURSIVE shape_until_cursor_loop(_, _, _, _)
shape_until_cursor_loop(b, i, layout_i, reshaped) ==
  IF i > Len(b.lines) \/ i - 1 > b.cursor.line
  THEN [b |-> b, layout_i |-> layout_i, reshaped |-> reshaped]
  ELSE LET line == Line_layout(b.lines[i], b.metrics.font_size, b.width)
           b1 == [b EXCEPT !.lines[i] = line]
           re == IF b.lines[i].shape_opt = None THEN reshaped + 1 ELSE reshaped
       IN IF i - 1 = b.cursor.line
          THEN [b |-> b1, layout_i |-> layout_i + layout_cursor(b1, b1.cursor).layout,
                reshaped |-> re]
          ELSE shape_until_cursor_loop(b1, i + 1, layout_i + Len(line.layout_opt[1]), re)

\* The scroll adjustment of shape_until_cursor; r is what the loop produced.
scroll_to_cursor(r, lines) ==
  [r.b EXCEPT
     !.redraw = IF r.reshaped > 0 THEN TRUE ELSE r.b.redraw,
     !.scroll = IF r.layout_i < r.b.scroll THEN r.layout_i
                ELSE IF r.layout_i >= r.b.scroll + lines THEN r.layout_i - (lines - 1)
                ELSE r.b.scroll]

\* TextBuffer::shape_until_cursor
shape_until_cursor(b) ==
  shape_until_scroll(
    scroll_to_cursor(shape_until_cursor_loop(b, 1, 0, 0), lines_visible(b)))

\* Fault injection for C25: relayout laying out every line, shaped or not.
relayout_every_line(b) ==
  [b EXCEPT
     !.lines = [i \in 1..Len(b.lines) |->
                  Line_layout(Line_reset_layout(b.lines[i]),
                              b.metrics.font_size, b.width)],
     !.redraw = TRUE]

\* TextBuffer::relayout: every shaped line gets a fresh layout.
relayout(b) ==
  [b EXCEPT
     !.lines = [i \in 1..Len(b.lines) |->
                  IF b.lines[i].shape_opt # None
                  THEN Line_layout(Line_reset_layout(b.lines[i]),
                                   b.metrics.font_size, b.width)
                  ELSE b.lines[i]],
     !.redraw = TRUE]

\* The cursor update of set_layout_cursor; layout is the layout of the line,
\* which is never without rows.
set_layout_cursor_in(b, cursor, layout) ==
  LET glyphs == (IF cursor.layout < Len(layout)
                 THEN layout[cursor.layout + 1]
                 ELSE layout[Len(layout)]).glyphs
      new_index == IF cursor.glyph < Len(glyphs) THEN glyphs[cursor.glyph + 1].start
                   ELSE IF Len(glyphs) > 0 THEN glyphs[Len(glyphs)].end
                   ELSE 0
  IN IF Len(layout) = 0 THEN Fault(b)
     ELSE IF b.cursor.line # cursor.line \/ b.cursor.index # new_index
     THEN [b EXCEPT !.cursor = TextCursor_new(cursor.line, new_index),
                    !.redraw = TRUE]
     ELSE b

\* The buffer with line i (1-based) laid out.
with_layout(b, i) ==
  [b EXCEPT !.lines[i] = Line_layout(b.lines[i], b.metrics.font_size, b.width)]

set_layout_cursor_laid(b, cursor) ==
  set_layout_cursor_in(b, cursor, b.lines[cursor.line + 1].layout_opt[1])

\* TextBuffer::set_layout_cursor: panics when the line does not exist.
set_layout_cursor(b, cursor) ==
  IF cursor.line >= Len(b.lines) THEN Fault(b)
  ELSE set_layout_cursor_laid(with_layout(b, cursor.line + 1), cursor)

\* TextBuffer::set_metrics
set_metrics(b, metrics) ==
  IF metrics # b.metrics
  THEN shape_until_scroll(relayout([b EXCEPT !.metrics = metrics]))
  ELSE b

\* The height half of set_size.
set_height(b, height) ==
  IF height # b.height THEN shape_until_scroll([b EXCEPT !.height = height]) ELSE b

\* TextBuffer::set_size
set_size(b, width, height) ==
  set_height(IF width # b.width
             THEN shape_until_scroll(relayout([b EXCEPT !.width = width]))
             ELSE b,
             height)

\* str::lines: the text cut at every "\n"; a final "\n" adds no empty line.
RECURSIVE str_lines(_)
str_lines(t) ==
  IF t = << >> THEN << >>
  ELSE LET nl == {i \in 1..Len(t) : t[i] = "\n"}
       IN IF nl = {} THEN <<t>>
          ELSE LET i == CHOOSE k \in nl : \A m \in nl : k <= m
               IN <<SubSeq(t, 1, i - 1)>> \o str_lines(SubSeq(t, i + 1, Len(t)))

\* Fault injection for C3: set_text without the line it pushes when the text
\* has no lines.
set_text_no_fallback(b, text, attrs) ==
  shape_until_scroll(
    [b EXCEPT !.lines = [i \in 1..Len(str_lines(text)) |->
                           Line_new(str_lines(text)[i], AttrsList_new(attrs))],
              !.scroll = 0,
              !.cursor = TextCursor_new(0, 0),
              !.select_opt = None])

\* TextBuffer::set_text
set_text(b, text, attrs) ==
  LET ls == str_lines(text)
      new_lines == IF ls = << >>
                   THEN <<Line_new(<< >>, AttrsList_new(attrs))>>
                   ELSE [i \in 1..Len(ls) |-> Line_new(ls[i], AttrsList_new(attrs))]
  IN shape_until_scroll([b EXCEPT !.lines = new_lines,
                                  !.scroll = 0,
                                  !.cursor = TextCursor_new(0, 0),
                                  !.select_opt = None])

\* TextBuffer::new (the font system plays no part in the model)
TextBuffer_new(metrics) ==
  set_text([lines |-> << >>, metrics |-> metrics, width |-> 0, height |-> 0,
            scroll |-> 0, cursor |-> TextCursor_new(0, 0), cursor_x_opt |-> None,
            select_opt |-> None, cursor_moved |-> FALSE, redraw |-> FALSE,
            fault |-> FALSE],
           << >>, DefaultAttrs)

\* Fault injection for C26: the iterator skipping one row more than scroll.
RECURSIVE layout_runs_skip_more(_, _, _, _, _)
layout_runs_skip_more(b, line_i, layout_i, line_y, total_layout) ==
  IF line_i >= Len(b.lines) THEN << >>
  ELSE LET line == b.lines[line_i + 1]
       IN IF line.shape_opt = None \/ line.layout_opt = None THEN << >>
          ELSE LET layout == line.layout_opt[1]
               IN IF layout_i >= Len(layout)
                  THEN layout_runs_skip_more(b, line_i + 1, 0, line_y, total_layout)
                  ELSE IF total_layout <= b.scroll
                  THEN layout_runs_skip_more(b, line_i, layout_i + 1, line_y,
                                             total_layout + 1)
                  ELSE LET y == line_y + b.metrics.line_height
                       IN IF y > b.height THEN << >>
                          ELSE <<[line_i |-> line_i,
                                  text |-> line.text,
                                  rtl |-> line.shape_opt[1].rtl,
                                  glyphs |-> layout[layout_i + 1].glyphs,
                                  line_y |-> y]>>
                               \o layout_runs_skip_more(b, line_i, layout_i + 1, y,
                                                        total_layout + 1)

\* TextLayoutRunIter: the runs layout_runs() yields, in order.  line_i and
\* layout_i are 0-based as in the source; the iteration ends at a line whose
\* shape or layout cache is absent and at the first row below the viewport.
RECURSIVE layout_runs_from(_, _, _, _, _)
layout_runs_from(b, line_i, layout_i, line_y, total_layout) ==
  IF line_i >= Len(b.lines) THEN << >>
  ELSE LET line == b.lines[line_i + 1]
       IN IF line.shape_opt = None \/ line.layout_opt = None THEN << >>
          ELSE LET layout == line.layout_opt[1]
               IN IF layout_i >= Len(layout)
                  THEN layout_runs_from(b, line_i + 1, 0, line_y, total_layout)
                  ELSE IF total_layout < b.scroll
                  THEN layout_runs_from(b, line_i, layout_i + 1, line_y, total_layout + 1)
                  ELSE LET y == line_y + b.metrics.line_height
                       IN IF y > b.height THEN << >>
                          ELSE <<[line_i |-> line_i,
                                  text |-> line.text,
                                  rtl |-> line.shape_opt[1].rtl,
                                  glyphs |-> layout[layout_i + 1].glyphs,
                                  line_y |-> y]>>
                               \o layout_runs_from(b, line_i, layout_i + 1, y,
                                                   total_layout + 1)

\* TextBuffer::layout_runs
layout_runs(b) ==
  layout_runs_from(b, 0, 0, b.metrics.font_size - b.metrics.line_height, 0)

\* Fault injection for C17: the right half of a cluster moving the cursor on
\* by one byte instead of the byte length of the cluster.
hit_glyph_char_one_byte(egcs, len, glyph, x) ==
  LET total == Len(egcs)
      S == 2 * total
      egc_w == 2 * glyph.w
      inside == {k \in 1..total :
                   /\ x >= (glyph.x * S + (k - 1) * egc_w) \div S
                   /\ x <= (glyph.x * S + k * egc_w) \div S}
      k == CHOOSE k \in inside : \A m \in inside : k <= m
  IN IF inside # {}
     THEN IF (x >= (glyph.x * S + (k - 1) * egc_w + glyph.w) \div S) # glyph.rtl
          THEN egcs[k].start + 1
          ELSE egcs[k].start
     ELSE IF (x >= (2 * glyph.x + glyph.w) \div 2) # glyph.rtl THEN len ELSE 0

\* The byte offset inside a hit glyph (new_cursor_char of hit); egcs are the
\* grapheme clusters of the glyph's text, len its byte length.  The source
\* computes in f32 and truncates with `as i32`; here every length is scaled
\* by 2 * total, which makes the divisions exact, and \div truncates.
hit_glyph_char_in(egcs, len, glyph, x) ==
  LET total == Len(egcs)
      S == 2 * total
      egc_w == 2 * glyph.w
      inside == {k \in 1..total :
                   /\ x >= (glyph.x * S + (k - 1) * egc_w) \div S
                   /\ x <= (glyph.x * S + k * egc_w) \div S}
      k == CHOOSE k \in inside : \A m \in inside : k <= m
  IN IF inside # {}
     THEN IF (x >= (glyph.x * S + (k - 1) * egc_w + glyph.w) \div S) # glyph.rtl
          THEN egcs[k].start + egcs[k].len
          ELSE egcs[k].start
     ELSE IF (x >= (2 * glyph.x + glyph.w) \div 2) # glyph.rtl THEN len ELSE 0

hit_glyph_char(text, glyph, x) ==
  hit_glyph_char_in(grapheme_indices(SubSeq(text, glyph.start + 1, glyph.end)),
                    glyph.end - glyph.start, glyph, x)

\* The cursor hit() computes on the run whose band holds y.
hit_run(run, x) ==
  LET glyphs == run.glyphs
      over == {g \in 1..Len(glyphs) :
                 x >= glyphs[g].x /\ x <= glyphs[g].x + glyphs[g].w}
      g == CHOOSE g \in over : \A h \in over : g <= h
  IN IF over # {}
     THEN TextCursor_new(run.line_i,
                         glyphs[g].start + hit_glyph_char(run.text, glyphs[g], x))
     ELSE IF Len(glyphs) > 0
     THEN TextCursor_new(run.line_i, glyphs[Len(glyphs)].end)
     ELSE TextCursor_new(run.line_i, 0)

\* The loop of hit over the visible runs.
hit_in(runs, font_size, line_height, x, y) ==
  LET on == {r \in 1..Len(runs) :
               /\ y >= runs[r].line_y - font_size
               /\ y < runs[r].line_y - font_size + line_height}
  IN IF on = {} THEN None
     ELSE Some(hit_run(runs[CHOOSE r \in on : \A q \in on : r <= q], x))

\* TextBuffer::hit: Some(cursor) for the first visible run whose vertical band
\* holds y, None when there is none.
hit(b, x, y) == hit_in(layout_runs(b), b.metrics.font_size, b.metrics.line_height, x, y)

\* ------------------------------------------------------ TextBuffer::action
\* Every arm panics on self.lines[self.cursor.line] when the line is missing.
cursor_line_ok(b) == b.cursor.line < Len(b.lines)

\* The largest element of starts below index, 0 when there is none
\* (the "Find previous character index" loops).
prev_index_of(starts, index) ==
  LET below == {i \in starts : i < index}
  IN IF below = {} THEN 0 ELSE CHOOSE i \in below : \A j \in below : j <= i

SeqRange(s) == {s[i] : i \in 1..Len(s)}

\* TextAction::Previous
action_Previous(b) ==
  IF ~cursor_line_ok(b) THEN Fault(b)
  ELSE
  LET text == b.lines[b.cursor.line + 1].text
      b1 == IF b.cursor.index > 0
            THEN [b EXCEPT
                    !.cursor.index =
                       prev_index_of({g.start : g \in SeqRange(grapheme_indices(text))},
                                     b.cursor.index),
                    !.redraw = TRUE]
            ELSE IF b.cursor.line > 0
            THEN [b EXCEPT
                    !.cursor = TextCursor_new(b.cursor.line - 1,
                                              Len(b.lines[b.cursor.line].text)),
                    !.redraw = TRUE]
            ELSE b
  IN [b1 EXCEPT !.cursor_x_opt = None]

\* TextAction::Next
action_Next(b) ==
  IF ~cursor_line_ok(b) THEN Fault(b)
  ELSE
  LET text == b.lines[b.cursor.line + 1].text
      at == {g \in SeqRange(grapheme_indices(text)) : g.start = b.cursor.index}
      b1 == IF b.cursor.index < Len(text)
            THEN IF at # {}
                 THEN [b EXCEPT
                         !.cursor.index = b.cursor.index + (CHOOSE g \in at : TRUE).len,
                         !.redraw = TRUE]
                 ELSE b
            ELSE IF b.cursor.line + 1 < Len(b.lines)
            THEN [b EXCEPT !.cursor = TextCursor_new(b.cursor.line + 1, 0),
                           !.redraw = TRUE]
            ELSE b
  IN [b1 EXCEPT !.cursor_x_opt = None]

\* Fault injection for C12: the update comparing the index alone.
mark_cursor_moved_index_only(old_cursor, b) ==
  IF ~b.fault /\ old_cursor.index # b.cursor.index
  THEN [b EXCEPT !.cursor_moved = TRUE]
  ELSE b

\* The cursor_moved update that ends every call of action.
mark_cursor_moved(old_cursor, b) ==
  IF ~b.fault /\ old_cursor # b.cursor THEN [b EXCEPT !.cursor_moved = TRUE] ELSE b

\* TextAction::Left: the nested self.action call ends with its own
\* cursor_moved update.
action_Left(b) ==
  IF ~cursor_line_ok(b) THEN Fault(b)
  ELSE LET shape_opt == b.lines[b.cursor.line + 1].shape_opt
       IN IF shape_opt = None THEN b
          ELSE IF shape_opt[1].rtl
          THEN mark_cursor_moved(b.cursor, action_Next(b))
          ELSE mark_cursor_moved(b.cursor, action_Previous(b))

\* TextAction::Right
action_Right(b) ==
  IF ~cursor_line_ok(b) THEN Fault(b)
  ELSE LET shape_opt == b.lines[b.cursor.line + 1].shape_opt
       IN IF shape_opt = None THEN b
          ELSE IF shape_opt[1].rtl
          THEN mark_cursor_moved(b.cursor, action_Previous(b))
          ELSE mark_cursor_moved(b.cursor, action_Next(b))

\* cursor_x_opt as Up and Down leave it: the glyph index when it was None.
keep_cursor_x(b, glyph) ==
  IF b.cursor_x_opt = None THEN [b EXCEPT !.cursor_x_opt = Some(glyph)] ELSE b

\* Up, with cursor the layout cursor of the buffer's cursor.
action_Up_from(b, cursor) ==
  set_layout_cursor(
    keep_cursor_x(b, cursor.glyph),
    [line |-> IF cursor.layout = 0 /\ cursor.line > 0 THEN cursor.line - 1
              ELSE cursor.line,
     layout |-> IF cursor.layout > 0 THEN cursor.layout - 1
                ELSE IF cursor.line > 0 THEN usize_max
                ELSE cursor.layout,
     glyph |-> IF b.cursor_x_opt = None THEN cursor.glyph ELSE b.cursor_x_opt[1]])

\* TextAction::Up
action_Up(b) ==
  IF ~layout_cursor_ok(b, b.cursor) THEN Fault(b)
  ELSE action_Up_from(b, layout_cursor(b, b.cursor))

\* Down, with cursor the layout cursor of the buffer's cursor and layout_len
\* the number of rows of its line.
action_Down_from(b, cursor, layout_len) ==
  set_layout_cursor(
    keep_cursor_x(b, cursor.glyph),
    [line |-> IF cursor.layout + 1 >= layout_len /\ cursor.line + 1 < Len(b.lines)
              THEN cursor.line + 1
              ELSE cursor.line,
     layout |-> IF cursor.layout + 1 < layout_len THEN cursor.layout + 1
                ELSE IF cursor.line + 1 < Len(b.lines) THEN 0
                ELSE cursor.layout,
     glyph |-> IF b.cursor_x_opt = None THEN cursor.glyph ELSE b.cursor_x_opt[1]])

\* TextAction::Down
action_Down(b) ==
  IF ~layout_cursor_ok(b, b.cursor) THEN Fault(b)
  ELSE action_Down_from(b, layout_cursor(b, b.cursor),
                        Len(b.lines[b.cursor.line + 1].layout_opt[1]))

\* Home and End clear cursor_x_opt after set_layout_cursor.
clear_cursor_x(b) == IF b.fault THEN b ELSE [b EXCEPT !.cursor_x_opt = None]

\* The layout cursor with its glyph index replaced.
with_glyph(cursor, glyph) == [cursor EXCEPT !.glyph = glyph]

\* TextAction::Home
action_Home(b) ==
  IF ~layout_cursor_ok(b, b.cursor) THEN Fault(b)
  ELSE clear_cursor_x(set_layout_cursor(b, with_glyph(layout_cursor(b, b.cursor), 0)))

\* TextAction::End
action_End(b) ==
  IF ~layout_cursor_ok(b, b.cursor) THEN Fault(b)
  ELSE clear_cursor_x(
         set_layout_cursor(b, with_glyph(layout_cursor(b, b.cursor), usize_max)))

\* TextAction::PageUp
action_PageUp(b) ==
  shape_until_scroll([b EXCEPT !.scroll = b.scroll - lines_visible(b), !.redraw = TRUE])

\* Fault injection for C20: PageDown without the shaping pass that clamps
\* scroll.
action_PageDown_no_shaping(b) ==
  [b EXCEPT !.scroll = b.scroll + lines_visible(b), !.redraw = TRUE]

\* TextAction::PageDown
action_PageDown(b) ==
  shape_until_scroll([b EXCEPT !.scroll = b.scroll + lines_visible(b), !.redraw = TRUE])

InsertAt(s, i, e) == SubSeq(s, 1, i - 1) \o <<e>> \o SubSeq(s, i, Len(s))

\* The control filter of Insert: control characters other than tab and
\* U+0092 are refused.
insert_refused(c) == is_control(c) /\ c \notin {"T", "U"}

\* Fault injection for C5: Insert advancing the cursor by one byte whatever
\* the encoded length of the character.
action_Insert_split_one_byte(b, c, sp) ==
  [b EXCEPT
     !.lines[b.cursor.line + 1] =
        Line_append(
          Line_append(sp.line,
                      Line_new(utf8(c), AttrsList_new(sp.line.attrs_list.defaults))),
          sp.new),
     !.cursor.index = b.cursor.index + 1]

\* Insert, with sp the line split at the cursor (.line before it, .new after).
action_Insert_split(b, c, sp) ==
  [b EXCEPT
     !.lines[b.cursor.line + 1] =
        Line_append(
          Line_append(sp.line,
                      Line_new(utf8(c), AttrsList_new(sp.line.attrs_list.defaults))),
          sp.new),
     !.cursor.index = b.cursor.index + len_utf8(c)]

\* TextAction::Insert
action_Insert(b, c) ==
  IF insert_refused(c) THEN b
  ELSE IF ~cursor_line_ok(b) THEN Fault(b)
  ELSE IF ~Line_split_off_ok(b.lines[b.cursor.line + 1], b.cursor.index) THEN Fault(b)
  ELSE action_Insert_split(b, c,
         Line_split_off(b.lines[b.cursor.line + 1], b.cursor.index))

\* Fault injection for C34: Enter that does not reset cursor.index.
action_Enter_split_keep_index(b, sp) ==
  [b EXCEPT
     !.lines = InsertAt([b.lines EXCEPT ![b.cursor.line + 1] = sp.line],
                        b.cursor.line + 2, sp.new),
     !.cursor = TextCursor_new(b.cursor.line + 1, b.cursor.index)]

\* Fault injection for C7: Enter inserting the new line before the line it
\* was split from.
action_Enter_split_before(b, sp) ==
  [b EXCEPT
     !.lines = InsertAt([b.lines EXCEPT ![b.cursor.line + 1] = sp.line],
                        b.cursor.line + 1, sp.new),
     !.cursor = TextCursor_new(b.cursor.line + 1, 0)]

\* Enter, with sp the line split at the cursor.
action_Enter_split(b, sp) ==
  [b EXCEPT
     !.lines = InsertAt([b.lines EXCEPT ![b.cursor.line + 1] = sp.line],
                        b.cursor.line + 2, sp.new),
     !.cursor = TextCursor_new(b.cursor.line + 1, 0)]

\* TextAction::Enter
action_Enter(b) ==
  IF ~cursor_line_ok(b) THEN Fault(b)
  ELSE IF ~Line_split_off_ok(b.lines[b.cursor.line + 1], b.cursor.index) THEN Fault(b)
  ELSE action_Enter_split(b, Line_split_off(b.lines[b.cursor.line + 1], b.cursor.index))

\* The line left when [prev_index, end of before) is cut from before and
\* after is appended.
cut_and_append(before, prev_index, after) ==
  Line_append(Line_split_off(before, prev_index).line, after)

\* Fault injection for C6: Backspace that does not append the text after the
\* cursor again.
action_Backspace_split_drop_after(b, sp, prev_index) ==
  [b EXCEPT !.lines[b.cursor.line + 1] = Line_split_off(sp.line, prev_index).line,
            !.cursor.index = prev_index]

\* Backspace inside a line, with sp the line split at the cursor and
\* prev_index the byte offset of the last code point before the cursor.
action_Backspace_split(b, sp, prev_index) ==
  [b EXCEPT !.lines[b.cursor.line + 1] = cut_and_append(sp.line, prev_index, sp.new),
            !.cursor.index = prev_index]

\* The previous character index Backspace finds with char_indices.
backspace_prev_index(text, index) == prev_index_of(SeqRange(char_indices(text)), index)

\* Fault injection for C1: the line merge of Backspace leaving cursor.line
\* as it was.
action_Backspace_merge_keep_line(b) ==
  [b EXCEPT
     !.lines = [RemoveAt(b.lines, b.cursor.line + 1) EXCEPT
                  ![b.cursor.line] = Line_append(b.lines[b.cursor.line],
                                                 b.lines[b.cursor.line + 1])],
     !.cursor = TextCursor_new(b.cursor.line, Len(b.lines[b.cursor.line].text))]

\* Fault injection for C8: the line merge of Backspace reading the length of
\* the previous line after the append.
action_Backspace_merge_late_len(b) ==
  [b EXCEPT
     !.lines = [RemoveAt(b.lines, b.cursor.line + 1) EXCEPT
                  ![b.cursor.line] = Line_append(b.lines[b.cursor.line],
                                                 b.lines[b.cursor.line + 1])],
     !.cursor = TextCursor_new(b.cursor.line - 1,
                               Len(b.lines[b.cursor.line].text)
                               + Len(b.lines[b.cursor.line + 1].text))]

\* Backspace at the start of a line after the first: the line is removed and
\* appended to the one before it.
action_Backspace_merge(b) ==
  [b EXCEPT
     !.lines = [RemoveAt(b.lines, b.cursor.line + 1) EXCEPT
                  ![b.cursor.line] = Line_append(b.lines[b.cursor.line],
                                                 b.lines[b.cursor.line + 1])],
     !.cursor = TextCursor_new(b.cursor.line - 1, Len(b.lines[b.cursor.line].text))]

\* TextAction::Backspace
action_Backspace(b) ==
  IF b.cursor.index > 0
  THEN IF ~cursor_line_ok(b) THEN Fault(b)
       ELSE IF ~Line_split_off_ok(b.lines[b.cursor.line + 1], b.cursor.index)
       THEN Fault(b)
       ELSE action_Backspace_split(
              b, Line_split_off(b.lines[b.cursor.line + 1], b.cursor.index),
              backspace_prev_index(
                SubSeq(b.lines[b.cursor.line + 1].text, 1, b.cursor.index),
                b.cursor.index))
  ELSE IF b.cursor.line > 0
  THEN IF ~cursor_line_ok(b) THEN Fault(b) ELSE action_Backspace_merge(b)
  ELSE b

\* Fault injection for C10: Delete finding its range with char_indices, one
\* code point instead of one grapheme cluster.
delete_range_char(text, index) ==
  LET upto == {i \in SeqRange(char_indices(text)) : i <= index}
      start == CHOOSE i \in upto : \A h \in upto : h <= i
      ends == {j \in (start + 1)..Len(text) : is_char_boundary(text, j)}
  IN IF upto = {} THEN None
     ELSE Some([start |-> start,
                len |-> (CHOOSE j \in ends : \A k \in ends : j <= k) - start])

\* The range Delete removes: the last grapheme cluster of the line that
\* starts at or before the index.
delete_range(text, index) ==
  LET upto == {g \in SeqRange(grapheme_indices(text)) : g.start <= index}
  IN IF upto = {} THEN None
     ELSE Some(CHOOSE g \in upto : \A h \in upto : h.start <= g.start)

\* Delete inside a line, with range_opt the range found.
action_Delete_range(b, range_opt) ==
  IF range_opt = None THEN b
  ELSE [b EXCEPT
          !.lines[b.cursor.line + 1] =
             cut_and_append(
               Line_split_off(b.lines[b.cursor.line + 1],
                              range_opt[1].start + range_opt[1].len).line,
               range_opt[1].start,
               Line_split_off(b.lines[b.cursor.line + 1],
                              range_opt[1].start + range_opt[1].len).new),
          !.cursor.index = range_opt[1].start]

\* Delete at the end of a line that is not the last: the next line is
\* removed and appended.
action_Delete_merge(b) ==
  [b EXCEPT
     !.lines = [RemoveAt(b.lines, b.cursor.line + 2) EXCEPT
                  ![b.cursor.line + 1] = Line_append(b.lines[b.cursor.line + 1],
                                                     b.lines[b.cursor.line + 2])]]

\* TextAction::Delete
action_Delete(b) ==
  IF ~cursor_line_ok(b) THEN Fault(b)
  ELSE IF b.cursor.index < Len(b.lines[b.cursor.line + 1].text)
  THEN action_Delete_range(b, delete_range(b.lines[b.cursor.line + 1].text,
                                           b.cursor.index))
  ELSE IF b.cursor.line + 1 < Len(b.lines) THEN action_Delete_merge(b)
  ELSE b

\* The cursor update shared by Click and Drag; new_cursor_opt is what hit
\* returned.
move_to(b, new_cursor_opt) ==
  IF new_cursor_opt # None /\ new_cursor_opt[1] # b.cursor
  THEN [b EXCEPT !.cursor = new_cursor_opt[1], !.redraw = TRUE]
  ELSE b

move_to_hit(b, x, y) == move_to(b, hit(b, x, y))

\* Fault injection for C21: Click without the reset of the selection anchor.
action_Click_keep_select(b, x, y) == move_to_hit(b, x, y)

\* TextAction::Click
action_Click(b, x, y) == move_to_hit([b EXCEPT !.select_opt = None], x, y)

\* Fault injection for C22: Drag putting the anchor at the cursor on every
\* call.
action_Drag_reanchor(b, x, y) ==
  move_to_hit([b EXCEPT !.select_opt = Some(b.cursor), !.redraw = TRUE], x, y)

\* TextAction::Drag
action_Drag(b, x, y) ==
  move_to_hit(IF b.select_opt = None
              THEN [b EXCEPT !.select_opt = Some(b.cursor), !.redraw = TRUE]
              ELSE b,
              x, y)

\* Fault injection for C13: Scroll running on into the Delete arm.
action_Scroll_then_Delete(b, lines) ==
  action_Delete(
    shape_until_scroll([b EXCEPT !.scroll = b.scroll + lines, !.redraw = TRUE]))

\* TextAction::Scroll
action_Scroll(b, lines) ==
  shape_until_scroll([b EXCEPT !.scroll = b.scroll + lines, !.redraw = TRUE])

\* TextBuffer::action: a is a record, kind naming the TextAction variant.
action(b, a) ==
  mark_cursor_moved(b.cursor,
    CASE a.kind = "Previous" -> action_Previous(b)
      [] a.kind = "Next" -> action_Next(b)
      [] a.kind = "Left" -> action_Left(b)
      [] a.kind = "Right" -> action_Right(b)
      [] a.kind = "Up" -> action_Up(b)
      [] a.kind = "Down" -> action_Down(b)
      [] a.kind = "Home" -> action_Home(b)
      [] a.kind = "End" -> action_End(b)
      [] a.kind = "PageUp" -> action_PageUp(b)
      [] a.kind = "PageDown" -> action_PageDown(b)
      [] a.kind = "Insert" -> action_Insert(b, a.character)
      [] a.kind = "Enter" -> action_Enter(b)
      [] a.kind = "Backspace" -> action_Backspace(b)
      [] a.kind = "Delete" -> action_Delete(b)
      [] a.kind = "Click" -> action_Click(b, a.x, a.y)
      [] a.kind = "Drag" -> action_Drag(b, a.x, a.y)
      [] a.kind = "Scroll" -> action_Scroll(b, a.lines))

\* ------------------------------------------------------------ state machine
VARIABLES
  lines,         \* TextBuffer.lines
  metrics,       \* TextBuffer.metrics
  width,         \* TextBuffer.width
  height,        \* TextBuffer.height
  scroll,        \* TextBuffer.scroll
  cursor,        \* TextBuffer.cursor
  cursor_x_opt,  \* TextBuffer.cursor_x_opt
  select_opt,    \* TextBuffer.select_opt
  cursor_moved,  \* TextBuffer.cursor_moved
  redraw,        \* TextBuffer.redraw
  fault,         \* TRUE once an operation has panicked
  last,          \* history (SpecEdit): the last operation applied
  pre,           \* history (SpecEdit): line texts and cursor before that operation
  al,            \* an AttrsList of its own (SpecAttrs)
  calls,         \* history (SpecAttrs): the add_span calls that built al, in order
  parts,         \* history (SpecAttrs): the last split_off, its input and its results
  color,         \* a Color of its own (SpecColor): the u32 it wraps
  made           \* history (SpecColor): the constructor call that made color

vars == <<lines, metrics, width, height, scroll, cursor, cursor_x_opt, select_opt,
          cursor_moved, redraw, fault, last, pre, al, calls, parts, color, made>>

\* The buffer in the current state.
Buf ==
  [lines |-> lines, metrics |-> metrics, width |-> width, height |-> height,
   scroll |-> scroll, cursor |-> cursor, cursor_x_opt |-> cursor_x_opt,
   select_opt |-> select_opt, cursor_moved |-> cursor_moved, redraw |-> redraw,
   fault |-> fault]

\* The next state holds the buffer nb.
Becomes(nb) ==
  /\ lines' = nb.lines
  /\ metrics' = nb.metrics
  /\ width' = nb.width
  /\ height' = nb.height
  /\ scroll' = nb.scroll
  /\ cursor' = nb.cursor
  /\ cursor_x_opt' = nb.cursor_x_opt
  /\ select_opt' = nb.select_opt
  /\ cursor_moved' = nb.cursor_moved
  /\ redraw' = nb.redraw
  /\ fault' = nb.fault
  /\ UNCHANGED <<al, calls, parts, color, made>>

\* Inputs of the operations.
InitMetrics == [font_size |-> 2, line_height |-> 3]
Widths == {4}
Heights == {3}
InsertChars == {"a", "M", "P", "C"}
SetTextInputs == {<< >>, <<"a", "\n", "a", "M", Cont>>, <<"P", Cont, "a", "\n">>}
ScrollAmounts == {-2, 1, 3}
HitXs == {0, 1, 9}
HitYs == {0, 9}

\* The TextAction values the model applies.
InsertActions == {[kind |-> "Insert", character |-> c] : c \in InsertChars}
ClickActions == {[kind |-> "Click", x |-> x, y |-> y] : x \in HitXs, y \in HitYs}
DragActions == {[kind |-> "Drag", x |-> x, y |-> y] : x \in HitXs, y \in HitYs}
ScrollActions == {[kind |-> "Scroll", lines |-> n] : n \in ScrollAmounts}
PlainActions ==
  {[kind |-> k] : k \in {"Previous", "Next", "Left", "Right", "Up", "Down", "Home",
                         "End", "PageUp", "PageDown", "Enter", "Backspace", "Delete"}}
TextActions ==
  PlainActions \cup InsertActions \cup ClickActions \cup DragActions \cup ScrollActions

RECURSIVE SumBytes(_, _)
SumBytes(ls, i) == IF i > Len(ls) THEN 0 ELSE Len(ls[i].text) + SumBytes(ls, i + 1)
TotalBytes(b) == SumBytes(b.lines, 1)

\* The bounds of the model: an action is applied when its result fits them.
Fits(a, max_bytes, max_lines) ==
  /\ a.kind = "Insert" =>
       insert_refused(a.character) \/ TotalBytes(Buf) + len_utf8(a.character) <= max_bytes
  /\ a.kind = "Enter" => Len(lines) < max_lines

InBounds(a) == Fits(a, MaxBytes, MaxLines)

Init ==
  LET b == TextBuffer_new(InitMetrics)
  IN /\ lines = b.lines
     /\ metrics = b.metrics
     /\ width = b.width
     /\ height = b.height
     /\ scroll = b.scroll
     /\ cursor = b.cursor
     /\ cursor_x_opt = b.cursor_x_opt
     /\ select_opt = b.select_opt
     /\ cursor_moved = b.cursor_moved
     /\ redraw = b.redraw
     /\ fault = b.fault
     /\ last = [kind |-> "new"]
     /\ pre = [texts |-> << >>, cursor |-> TextCursor_new(0, 0)]
     /\ al = AttrsList_new(DefaultAttrs)
     /\ calls = << >>
     /\ parts = None
     /\ color = Color_rgb(0, 0, 0)
     /\ made = [fn |-> "rgb", r |-> 0, g |-> 0, b |-> 0, a |-> 255]

DoSetText ==
  \E t \in SetTextInputs :
    ~fault /\ Becomes(set_text(Buf, t, DefaultAttrs)) /\ UNCHANGED <<last, pre>>
DoSetSize ==
  \E w \in Widths, h \in Heights :
    ~fault /\ Becomes(set_size(Buf, w, h)) /\ UNCHANGED <<last, pre>>
DoShapeUntilCursor == ~fault /\ Becomes(shape_until_cursor(Buf)) /\ UNCHANGED <<last, pre>>
DoShapeUntilScroll == ~fault /\ Becomes(shape_until_scroll(Buf)) /\ UNCHANGED <<last, pre>>

\* One call of TextBuffer::action.
Act(a) == ~fault /\ InBounds(a) /\ Becomes(action(Buf, a)) /\ UNCHANGED <<last, pre>>

DoPrevious == Act([kind |-> "Previous"])
DoNext == Act([kind |-> "Next"])
DoLeft == Act([kind |-> "Left"])
DoRight == Act([kind |-> "Right"])
DoUp == Act([kind |-> "Up"])
DoDown == Act([kind |-> "Down"])
DoHome == Act([kind |-> "Home"])
DoEnd == Act([kind |-> "End"])
DoPageUp == Act([kind |-> "PageUp"])
DoPageDown == Act([kind |-> "PageDown"])
DoInsert == \E a \in InsertActions : Act(a)
DoEnter == Act([kind |-> "Enter"])
DoBackspace == Act([kind |-> "Backspace"])
DoDelete == Act([kind |-> "Delete"])
DoClick == \E a \in ClickActions : Act(a)
DoScroll == \E a \in ScrollActions : Act(a)

\* The buffer under every TextAction but Drag, with the shaping passes and the
\* set_text and set_size calls of the application in any order.  Drag differs
\* from Click only in select_opt, which no other operation reads.
Next ==
  \/ DoSetText \/ DoSetSize \/ DoShapeUntilCursor \/ DoShapeUntilScroll
  \/ DoPrevious \/ DoNext \/ DoLeft \/ DoRight \/ DoUp \/ DoDown \/ DoHome \/ DoEnd
  \/ DoPageUp \/ DoPageDown \/ DoInsert \/ DoEnter \/ DoBackspace \/ DoDelete
  \/ DoClick \/ DoScroll

Spec == Init /\ [][Next]_vars

\* An editing session: set_text, the four editing actions and Previous/Next,
\* each step recorded in last, with the line texts and the cursor it started
\* from in pre.
Texts(ls) == [i \in 1..Len(ls) |-> ls[i].text]
Snapshot == [texts |-> Texts(lines), cursor |-> cursor]

Logged(a) ==
  ~fault /\ Fits(a, MaxEditBytes, MaxEditLines) /\ Becomes(action(Buf, a)) /\ last' = a /\ pre' = Snapshot

EditSetText ==
  \E t \in SetTextInputs :
    /\ ~fault
    /\ Becomes(set_text(Buf, t, DefaultAttrs))
    /\ last' = [kind |-> "set_text"]
    /\ pre' = Snapshot
EditPrevious == Logged([kind |-> "Previous"])
EditNext == Logged([kind |-> "Next"])
EditInsert == \E a \in InsertActions : Logged(a)
EditEnter == Logged([kind |-> "Enter"])
EditBackspace == Logged([kind |-> "Backspace"])
EditDelete == Logged([kind |-> "Delete"])

NextEdit ==
  \/ EditSetText \/ EditPrevious \/ EditNext
  \/ EditInsert \/ EditEnter \/ EditBackspace \/ EditDelete

SpecEdit == Init /\ [][NextEdit]_vars

\* An AttrsList on its own: add_span calls from AttrsList::new, then one
\* split_off, then a fresh list.  Offsets are 0..MaxOffset, a list is built
\* by up to MaxSpans calls, the styles are those of AttrsTags.
buffer_vars ==
  <<lines, metrics, width, height, scroll, cursor, cursor_x_opt, select_opt,
    cursor_moved, redraw, fault, last, pre>>
AttrsTags == {"bold", "italic"}
Ranges == {r \in (0..MaxOffset) \X (0..MaxOffset) : r[1] < r[2]}

AttrsAddSpan ==
  \E r \in Ranges, attrs \in AttrsTags :
    /\ parts = None
    /\ Len(calls) < MaxSpans
    /\ al' = add_span(al, r[1], r[2], attrs)
    /\ calls' = Append(calls, [start |-> r[1], end |-> r[2], attrs |-> attrs])
    /\ UNCHANGED <<parts, buffer_vars, color, made>>

AttrsSplitOff ==
  \E index \in 0..MaxOffset :
    /\ parts = None
    /\ al' = split_off(al, index).old
    /\ parts' = Some([index |-> index, of |-> al, new |-> split_off(al, index).new])
    /\ UNCHANGED <<calls, buffer_vars, color, made>>

AttrsNew ==
  /\ parts # None
  /\ al' = AttrsList_new(DefaultAttrs)
  /\ calls' = << >>
  /\ parts' = None
  /\ UNCHANGED <<buffer_vars, color, made>>

NextAttrs == AttrsAddSpan \/ AttrsSplitOff \/ AttrsNew

SpecAttrs == Init /\ [][NextAttrs]_vars

\* A pointer session: set_text, set_size, Next, Scroll, Click and Drag, each
\* step recorded in last, with the line texts and the cursor it started from in
\* pre.  The record of a Drag also holds the cursor (first) and the selection
\* anchor (anchor) from before the first Drag of the run of consecutive Drags
\* it belongs to.
Pointed(a) ==
  ~fault /\ Becomes(action(Buf, a)) /\ last' = a /\ pre' = Snapshot

PtrSetText ==
  \E t \in SetTextInputs :
    /\ ~fault
    /\ Becomes(set_text(Buf, t, DefaultAttrs))
    /\ last' = [kind |-> "set_text"]
    /\ pre' = Snapshot
PtrSetSize ==
  \E w \in Widths, h \in Heights :
    /\ ~fault
    /\ Becomes(set_size(Buf, w, h))
    /\ last' = [kind |-> "set_size"]
    /\ pre' = Snapshot
PtrNext == Pointed([kind |-> "Next"])
PtrScroll == \E a \in ScrollActions : Pointed(a)
PtrClick == \E a \in ClickActions : Pointed(a)
PtrDrag ==
  \E a \in DragActions :
    /\ ~fault
    /\ Becomes(action(Buf, a))
    /\ pre' = Snapshot
    /\ last' = [kind |-> "Drag", x |-> a.x, y |-> a.y,
                first |-> IF last.kind = "Drag" THEN last.first ELSE cursor,
                anchor |-> IF last.kind = "Drag" THEN last.anchor ELSE select_opt]

NextPointer ==
  \/ PtrSetText \/ PtrSetSize \/ PtrNext \/ PtrScroll \/ PtrClick \/ PtrDrag

SpecPointer == Init /\ [][NextPointer]_vars

\* A Color on its own: a call of one of its constructors replaces the black
\* of the initial state, and ColorDrop brings that back.  Components are drawn
\* from ByteSamples: no bit set, each of the eight bits set alone, all but
\* the top bit, and all bits.
ByteSamples == {0, 1, 2, 4, 8, 16, 32, 64, 128, 127, 255}
Black == [fn |-> "rgb", r |-> 0, g |-> 0, b |-> 0, a |-> 255]

ColorRgb ==
  \E r \in ByteSamples, g \in ByteSamples, b \in ByteSamples :
    /\ made = Black
    /\ color' = Color_rgb(r, g, b)
    /\ made' = [fn |-> "rgb", r |-> r, g |-> g, b |-> b, a |-> 255]
    /\ UNCHANGED <<buffer_vars, al, calls, parts>>

ColorRgba ==
  \E r \in ByteSamples, g \in ByteSamples, b \in ByteSamples, a \in ByteSamples :
    /\ made = Black
    /\ color' = Color_rgba(r, g, b, a)
    /\ made' = [fn |-> "rgba", r |-> r, g |-> g, b |-> b, a |-> a]
    /\ UNCHANGED <<buffer_vars, al, calls, parts>>

ColorDrop ==
  /\ made # Black
  /\ color' = Color_rgb(0, 0, 0)
  /\ made' = Black
  /\ UNCHANGED <<buffer_vars, al, calls, parts>>

NextColor == ColorRgb \/ ColorRgba \/ ColorDrop

SpecColor == Init /\ [][NextColor]_vars

\* =================================================================== claims
\* The cursor of b addresses existing text.
CursorAddressesText(b) ==
  /\ b.cursor.line < Len(b.lines)
  /\ b.cursor.index <= Len(b.lines[b.cursor.line + 1].text)

\* C1: in every state reachable from TextBuffer::new by set_text, set_size,
\* shaping passes and TextActions, the cursor addresses existing text:
\* cursor.line < lines.len() and cursor.index <= the byte length of that line.
\* Drag, which Next leaves out, is applied to every reachable state here.
C1_CursorAddressesText ==
  /\ CursorAddressesText(Buf)
  /\ \A a \in DragActions : CursorAddressesText(action(Buf, a))

\* C1 witness: a TextAction has moved the cursor to the end of the text of
\* the last of several lines, the largest address there is.
C1_Witness ==
  /\ cursor_moved
  /\ Len(lines) > 1
  /\ cursor.line = Len(lines) - 1
  /\ cursor.index = Len(lines[Len(lines)].text)
  /\ cursor.index > 1
  /\ ~fault

\* The cursor of b is on a grapheme cluster boundary of its line.
CursorOnGraphemeBoundary(b) ==
  /\ CursorAddressesText(b)
  /\ is_grapheme_boundary(b.lines[b.cursor.line + 1].text, b.cursor.index)

\* C2: a TextAction applied to a state whose cursor is on a grapheme cluster
\* boundary leaves the cursor on a grapheme cluster boundary.
C2_CursorStaysOnGraphemeBoundary ==
  CursorOnGraphemeBoundary(Buf) =>
    \A a \in TextActions :
      InBounds(a) => CursorOnGraphemeBoundary(action(Buf, a))

\* C3: the buffer always holds at least one line, after TextBuffer::new, after
\* set_text of any text and after any TextAction (Drag included).
C3_LinesNeverEmpty ==
  /\ Len(lines) >= 1
  /\ \A a \in DragActions : Len(action(Buf, a).lines) >= 1
  /\ \A t \in SetTextInputs : Len(set_text(Buf, t, DefaultAttrs).lines) >= 1

\* C3 witness: two lines with the cursor at the start of the second, where
\* Backspace merges them into the one line that is left.
C3_Witness ==
  /\ Len(lines) = 2
  /\ cursor = TextCursor_new(1, 0)
  /\ Len(action(Buf, [kind |-> "Backspace"]).lines) = 1
  /\ Len(set_text(Buf, << >>, DefaultAttrs).lines) = 1

\* The visual rows of the whole document at the buffer's width and font size.
RECURSIVE DocRowsFrom(_, _)
DocRowsFrom(b, i) ==
  IF i > Len(b.lines) THEN 0
  ELSE Len(shape_layout(b.lines[i].text, first_strong_rtl(b.lines[i].text, 1),
                        b.metrics.font_size, b.width))
       + DocRowsFrom(b, i + 1)
DocRows(b) == DocRowsFrom(b, 1)

ScrollInRange(b) ==
  /\ 0 <= b.scroll
  /\ b.scroll <= Max(0, DocRows(b) - lines_visible(b) + 1)

\* Inputs of C4: metrics for set_metrics, sizes for set_size, and Scroll
\* amounts that take scroll below zero and past the end of every document.
MetricsInputs == {InitMetrics, [font_size |-> 4, line_height |-> 2]}
SizeInputs == {<<w, h>> : w \in Widths \cup {0}, h \in Heights \cup {0, 6}}
FarScrolls == {-7, 7}

\* The results of the operations that end with a shaping pass, applied to b.
\* set_size and set_metrics run one only when they change a value.
AfterShapingPass(b) ==
  {shape_until_scroll(b), shape_until_cursor(b), action_PageUp(b), action_PageDown(b)}
  \cup {set_size(b, sz[1], sz[2]) :
          sz \in {z \in SizeInputs : z[1] # b.width \/ z[2] # b.height}}
  \cup {set_metrics(b, m) : m \in MetricsInputs \ {b.metrics}}
  \cup {set_text(b, t, DefaultAttrs) : t \in SetTextInputs}
  \cup {action_Scroll(b, n) : n \in ScrollAmounts \cup FarScrolls}

\* C4: after shape_until_scroll and after every operation that ends with it
\* (shape_until_cursor, set_size, set_metrics, set_text, Scroll, PageUp,
\* PageDown), 0 <= scroll <= max(0, total_visual_rows - visible_rows + 1),
\* also when the operation starts from or passes through a scroll value
\* below zero or past the end.
C4_ScrollInRange == \A nb \in AfterShapingPass(Buf) : ScrollInRange(nb)

\* C4 witness: a shaping pass has left scroll at its upper limit with a row
\* visible, one past the last row of a document of several rows.
C4_Witness ==
  /\ shape_until_scroll(Buf) = Buf
  /\ lines_visible(Buf) = 1
  /\ DocRows(Buf) >= 2
  /\ scroll = DocRows(Buf) - lines_visible(Buf) + 1

\* ------------------------------------------------- claims on editing actions
\* In SpecEdit, last is the step that led to the state and pre holds the line
\* texts and the cursor it started from.  PreLine is the 1-based position of
\* the line the cursor was on, PreText its text.
PreLine == pre.cursor.line + 1
PreIndex == pre.cursor.index
PreText == pre.texts[PreLine]

Cut(t, from, to) == SubSeq(t, 1, from) \o SubSeq(t, to + 1, Len(t))
Join(texts, l) ==
  SubSeq(texts, 1, l - 1) \o <<texts[l] \o texts[l + 1]>> \o SubSeq(texts, l + 2, Len(texts))

\* C5: Insert(c) of an accepted character at cursor (l, i) changes only line
\* l, whose text becomes text[0..i] + c + text[i..], leaves the number of
\* lines unchanged and moves the cursor to (l, i + len_utf8(c)).
C5_InsertEffect ==
  (last.kind = "Insert" /\ ~insert_refused(last.character)) =>
    /\ ~fault
    /\ Len(lines) = Len(pre.texts)
    /\ Texts(lines) =
         [pre.texts EXCEPT ![PreLine] =
            SubSeq(PreText, 1, PreIndex) \o utf8(last.character)
            \o SubSeq(PreText, PreIndex + 1, Len(PreText))]
    /\ cursor = TextCursor_new(pre.cursor.line, PreIndex + len_utf8(last.character))

\* C5 witness: a two-byte character has been inserted after the first byte of
\* the second of two lines, and the cursor is two bytes further.
C5_Witness ==
  /\ last = [kind |-> "Insert", character |-> "M"]
  /\ pre.cursor = TextCursor_new(1, 1)
  /\ Len(lines) = 2
  /\ lines[2].text = <<"a", "M", Cont>>
  /\ cursor = TextCursor_new(1, 3)

\* b holds the line texts and the cursor recorded in pre, and has not faulted.
RestoresPre(b) == ~b.fault /\ Texts(b.lines) = pre.texts /\ b.cursor = pre.cursor

\* C6: in the state an Insert of an accepted character has led to, Backspace
\* restores the text of every line and the cursor to what they were before
\* the Insert.
C6_InsertBackspaceRoundTrip ==
  (last.kind = "Insert" /\ ~insert_refused(last.character)) =>
    RestoresPre(action(Buf, [kind |-> "Backspace"]))

\* C6 witness: a two-byte combining mark has been inserted between two
\* characters of a line; Backspace takes it out again.
C6_Witness ==
  /\ last = [kind |-> "Insert", character |-> "M"]
  /\ pre.texts = <<<<"a", "a">>>>
  /\ pre.cursor = TextCursor_new(0, 1)
  /\ lines[1].text = <<"a", "M", Cont, "a">>
  /\ action(Buf, [kind |-> "Backspace"]).lines[1].text = <<"a", "a">>

\* C7: Enter at cursor (l, i) replaces line l by two consecutive lines holding
\* text[0..i] and text[i..], the other lines keeping their text and order;
\* lines.len() grows by exactly one and the cursor moves to (l + 1, 0).
C7_EnterEffect ==
  last.kind = "Enter" =>
    /\ ~fault
    /\ Len(lines) = Len(pre.texts) + 1
    /\ Texts(lines) =
         SubSeq(pre.texts, 1, PreLine - 1)
         \o <<SubSeq(PreText, 1, PreIndex), SubSeq(PreText, PreIndex + 1, Len(PreText))>>
         \o SubSeq(pre.texts, PreLine + 1, Len(pre.texts))
    /\ cursor = TextCursor_new(pre.cursor.line + 1, 0)

\* C7 witness: Enter has split the first of two lines between two of its
\* characters; the line after it is now the third.
C7_Witness ==
  /\ last.kind = "Enter"
  /\ pre.texts = <<<<"a", "M", Cont, "a">>, << >>>>
  /\ pre.cursor = TextCursor_new(0, 3)
  /\ Texts(lines) = <<<<"a", "M", Cont>>, <<"a">>, << >>>>
  /\ cursor = TextCursor_new(1, 0)

\* b has the lines and the cursor of the current state.
SameLinesAndCursor(b) == ~b.fault /\ b.lines = lines /\ b.cursor = cursor

\* C8: Backspace with the cursor at (l, 0), l > 0, replaces lines l-1 and l by
\* one line holding their concatenation, so that lines.len() drops by one,
\* and puts the cursor at (l-1, old byte length of line l-1); Backspace at
\* (0, 0) changes neither the lines nor the cursor.
C8_BackspaceAtLineStart ==
  /\ (last.kind = "Backspace" /\ PreIndex = 0 /\ pre.cursor.line > 0) =>
       /\ ~fault
       /\ Len(lines) = Len(pre.texts) - 1
       /\ Texts(lines) = Join(pre.texts, PreLine - 1)
       /\ cursor = TextCursor_new(pre.cursor.line - 1, Len(pre.texts[PreLine - 1]))
  /\ (last.kind = "Backspace" /\ pre.cursor = TextCursor_new(0, 0)) =>
       ~fault /\ Texts(lines) = pre.texts /\ cursor = pre.cursor
  /\ (~fault /\ cursor = TextCursor_new(0, 0)) =>
       SameLinesAndCursor(action(Buf, [kind |-> "Backspace"]))

\* C8 witness: Backspace at the start of the second of two lines, both with
\* text, has merged them and left the cursor at the join.
C8_Witness ==
  /\ last.kind = "Backspace"
  /\ pre.texts = <<<<"a", "M", Cont>>, <<"a">>>>
  /\ pre.cursor = TextCursor_new(1, 0)
  /\ Texts(lines) = <<<<"a", "M", Cont, "a">>>>
  /\ cursor = TextCursor_new(0, 3)

\* The start of the grapheme cluster of t that ends at grapheme boundary i > 0.
ClusterStart(t, i) ==
  CHOOSE s \in 0..(i - 1) :
    /\ is_grapheme_boundary(t, s)
    /\ \A k \in (s + 1)..(i - 1) : ~is_grapheme_boundary(t, k)

\* C9: Backspace with cursor.index > 0, the cursor on a grapheme boundary,
\* deletes the whole grapheme cluster that ends at the cursor, every code
\* point of it, and moves the cursor to the start of that cluster; the text
\* before and after the cluster, and the other lines, are unchanged.
C9_BackspaceDeletesCluster ==
  (last.kind = "Backspace" /\ PreIndex > 0 /\ is_grapheme_boundary(PreText, PreIndex)) =>
    /\ ~fault
    /\ Texts(lines) =
         [pre.texts EXCEPT ![PreLine] =
            Cut(PreText, ClusterStart(PreText, PreIndex), PreIndex)]
    /\ cursor = TextCursor_new(pre.cursor.line, ClusterStart(PreText, PreIndex))

\* C10: Delete with the cursor on a grapheme boundary before the end of its
\* line removes the grapheme cluster that starts at the cursor; at the end of
\* a line that is not the last it appends the next line's text to the line and
\* removes the next line; at the end of the last line it changes no text.
\* The cursor is unchanged in all three cases.
C10_DeleteEffect ==
  (last.kind = "Delete" /\ is_grapheme_boundary(PreText, PreIndex)) =>
    /\ ~fault
    /\ cursor = pre.cursor
    /\ Texts(lines) =
         IF PreIndex < Len(PreText)
         THEN [pre.texts EXCEPT ![PreLine] =
                 Cut(PreText, PreIndex, next_grapheme_boundary(PreText, PreIndex))]
         ELSE IF PreLine < Len(pre.texts) THEN Join(pre.texts, PreLine)
         ELSE pre.texts

\* C10 witness: Delete at the start of a line has removed a cluster of two
\* code points and kept the character after it.
C10_Witness ==
  /\ last.kind = "Delete"
  /\ pre.texts = <<<<"a", "M", Cont, "a">>>>
  /\ pre.cursor = TextCursor_new(0, 0)
  /\ Texts(lines) = <<<<"a">>>>
  /\ cursor = TextCursor_new(0, 0)

\* ------------------------------------------------------ claims C11 to C20
\* The control characters of the model.
ControlChars == {c \in {"a", "M", "P", "T", "C", "U"} : is_control(c)}

\* The buffers a claim about one action is checked on: the current state and
\* what each Drag makes of it (Drag alone sets the selection anchor).
WithDrags == {Buf} \cup {action(Buf, a) : a \in DragActions}

\* Insert(c) leaves b as it is.
InsertIsNoOp(b, c) == action(b, [kind |-> "Insert", character |-> c]) = b

\* C11: Insert(c) of a control character other than tab changes nothing: the
\* lines, the cursor, scroll, the selection anchor and cursor_moved are what
\* they were.
C11_ControlInsertIsNoOp ==
  ~fault => \A c \in ControlChars \ {"T"} : \A b \in WithDrags : InsertIsNoOp(b, c)

\* b after the application has processed and cleared cursor_moved.
Cleared(b) == [b EXCEPT !.cursor_moved = FALSE]

\* The TextActions the bounds of Spec admit in the current state.
BoundedActions == {a \in TextActions : InBounds(a)}

\* nb, the result of an action on b, has cursor_moved set if the cursor
\* differs, and still set if it was set.
MovedIsFlagged(b, nb) ==
  ~nb.fault =>
    /\ nb.cursor # b.cursor => nb.cursor_moved
    /\ b.cursor_moved => nb.cursor_moved

\* C12: whenever a TextAction returns with a cursor (line, index) that differs
\* from the one it started with, cursor_moved is true, and no TextAction
\* turns cursor_moved from true to false.  Checked from every reachable
\* state, with cursor_moved as it is and cleared.
C12_CursorMovedIsSet ==
  ~fault =>
    \A a \in BoundedActions :
      /\ MovedIsFlagged(Buf, action(Buf, a))
      /\ MovedIsFlagged(Cleared(Buf), action(Cleared(Buf), a))

\* C12 witness: the cursor is at the start of a line after the first, and
\* from there, cursor_moved cleared, Previous changes the cursor's line alone
\* and sets the flag.
C12_Witness ==
  /\ ~fault
  /\ cursor_moved
  /\ cursor.line > 0
  /\ cursor.index = 0
  /\ lines[cursor.line].text = << >>
  /\ action(Cleared(Buf), [kind |-> "Previous"]).cursor = TextCursor_new(cursor.line - 1, 0)
  /\ action(Cleared(Buf), [kind |-> "Previous"]).cursor_moved

\* The content of b: the text and the attribute list of every line, in order.
Content(b) ==
  [i \in 1..Len(b.lines) |->
     [text |-> b.lines[i].text, attrs_list |-> b.lines[i].attrs_list]]

\* The navigation actions.
NavActions ==
  {a \in TextActions :
     a.kind \in {"Previous", "Next", "Left", "Right", "Up", "Down", "Home", "End",
                 "PageUp", "PageDown", "Click", "Drag", "Scroll"}}

\* C13: a navigation action (Previous, Next, Left, Right, Up, Down, Home, End,
\* PageUp, PageDown, Click, Drag, Scroll) leaves the number of lines and the
\* text and attribute spans of every line as they were.
C13_NavigationKeepsContent ==
  ~fault =>
    \A a \in NavActions : \A b \in WithDrags : Content(action(b, a)) = Content(b)

\* C13 witness: two lines with text, laid out, the cursor on the second after
\* an Up or Down (cursor_x_opt is set); Up moves the cursor to the first line
\* and the content is the same.
C13_Witness ==
  /\ ~fault
  /\ Len(lines) = 2
  /\ lines[1].text # << >>
  /\ lines[2].text # << >>
  /\ cursor.line = 1
  /\ cursor_x_opt # None
  /\ action(Buf, [kind |-> "Up"]).cursor.line = 0
  /\ ~action(Buf, [kind |-> "Up"]).fault
  /\ Content(action(Buf, [kind |-> "Up"])) = Content(Buf)

\* ------------------------------------------------------ claims on AttrsList
\* In SpecAttrs, calls holds the add_span calls that built al.
CallStarts == {calls[k].start : k \in 1..Len(calls)}
CallEnds == {calls[k].end : k \in 1..Len(calls)}
UnionStart == CHOOSE x \in CallStarts : \A y \in CallStarts : x <= y
UnionEnd == CHOOSE x \in CallEnds : \A y \in CallEnds : y <= x

\* The ranges of calls are adjacent one to the next, whatever the order of the
\* calls: no two overlap and every range but the last ends where another one
\* starts, so that together they cover [UnionStart, UnionEnd).
AdjacentRanges ==
  /\ \A j, k \in 1..Len(calls) :
       j # k => (calls[j].end <= calls[k].start \/ calls[k].end <= calls[j].start)
  /\ \A k \in 1..Len(calls) : calls[k].end = UnionEnd \/ calls[k].end \in CallStarts

EqualAttrs == \A j, k \in 1..Len(calls) : calls[j].attrs = calls[k].attrs

\* C14: when the add_span calls made on a new list have adjacent ranges and
\* equal Attrs, in whatever order they were made, the list holds exactly one
\* span, which covers the union of the ranges.
C14_AdjacentSpansMerge ==
  (parts = None /\ calls # << >> /\ AdjacentRanges /\ EqualAttrs) =>
    al.spans = <<[start |-> UnionStart, end |-> UnionEnd, attrs |-> calls[1].attrs]>>

\* The add_span calls whose range contains [start, end).
Containing(start, end) ==
  {k \in 1..Len(calls) : calls[k].start <= start /\ end <= calls[k].end}

\* The Attrs of the most recent add_span call whose range contains
\* [start, end); the defaults when no call's range does.
LatestContaining(start, end) ==
  IF Containing(start, end) = {} THEN al.defaults
  ELSE calls[CHOOSE k \in Containing(start, end) :
               \A j \in Containing(start, end) : j <= k].attrs

\* C15: after any sequence of add_span calls, get_span(r) is the Attrs of the
\* most recently added span whose range contains r, and the defaults when no
\* added span contains r; the coalescing of add_span does not change the
\* answer.
C15_GetSpanMostRecent ==
  parts = None =>
    \A r \in Ranges : get_span(al, r[1], r[2]) = LatestContaining(r[1], r[2])

\* The spans the calls cs stand for when a call that starts where the call
\* before it ended, with equal Attrs, counts as one span with it.
RECURSIVE Coalesced(_)
Coalesced(cs) ==
  IF cs = << >> THEN << >>
  ELSE LET front == Coalesced(SubSeq(cs, 1, Len(cs) - 1))
           c == cs[Len(cs)]
       IN IF front # << >> /\ front[Len(front)].end = c.start
             /\ front[Len(front)].attrs = c.attrs
          THEN [front EXCEPT ![Len(front)].end = c.end]
          ELSE Append(front, c)

\* The Attrs of the last of entries that contains [start, end).
LatestEntry(entries, start, end) ==
  LET hits == {k \in 1..Len(entries) :
                 entries[k].start <= start /\ end <= entries[k].end}
  IN IF hits = {} THEN al.defaults
     ELSE entries[CHOOSE k \in hits : \A j \in hits : j <= k].attrs

\* C15 (amended): after any sequence of add_span calls, get_span(r) is the
\* Attrs of the most recently added span whose range contains r, a run of
\* calls that add_span coalesced (each starting where the one before ended,
\* with equal Attrs) counting as one added span over the union of the run; it
\* is the defaults when no such span contains r.
C15_GetSpanMostRecentCoalesced ==
  parts = None =>
    \A r \in Ranges : get_span(al, r[1], r[2]) = LatestEntry(Coalesced(calls), r[1], r[2])

\* C15 witness: a span over 0..3, then two adjacent spans of another style
\* that coalesce to 0..2: the query 0..2 resolves to the later style, 2..3 to
\* the earlier one, and 0..1 to the later one.
C15_Witness ==
  /\ parts = None
  /\ calls = <<[start |-> 0, end |-> 3, attrs |-> "italic"],
               [start |-> 0, end |-> 1, attrs |-> "bold"],
               [start |-> 1, end |-> 2, attrs |-> "bold"]>>
  /\ Len(al.spans) = 2
  /\ get_span(al, 0, 2) = "bold"
  /\ get_span(al, 2, 3) = "italic"
  /\ get_span(al, 0, 1) = "bold"

\* The part of each span of spans before index, in order: [s, min(e, index)).
RECURSIVE PartsBefore(_, _)
PartsBefore(spans, index) ==
  IF spans = << >> THEN << >>
  ELSE (IF spans[1].start < index
        THEN <<[spans[1] EXCEPT !.end = Min(spans[1].end, index)]>>
        ELSE << >>)
       \o PartsBefore(Tail(spans), index)

\* The part of each span of spans from index on, in order and re-based:
\* [max(s, index) - index, e - index).
RECURSIVE PartsAfter(_, _)
PartsAfter(spans, index) ==
  IF spans = << >> THEN << >>
  ELSE (IF spans[1].end > index
        THEN <<[start |-> Max(spans[1].start, index) - index,
                end |-> spans[1].end - index,
                attrs |-> spans[1].attrs]>>
        ELSE << >>)
       \o PartsAfter(Tail(spans), index)

\* kept and returned are the two lists split_off(index) made of the list of.
SplitPreservesCoverage(of, index, kept, returned) ==
  /\ kept.spans = PartsBefore(of.spans, index)
  /\ returned.spans = PartsAfter(of.spans, index)
  /\ \A k \in 1..Len(kept.spans) : kept.spans[k].end <= index
  /\ \A k \in 1..Len(returned.spans) :
       0 <= returned.spans[k].start /\ returned.spans[k].start < returned.spans[k].end
  /\ kept.defaults = of.defaults
  /\ returned.defaults = of.defaults

\* C16: split_off(index) keeps, of every span (s, e, attrs) of the list, the
\* part [s, min(e, index)) in the retained list and gives the part
\* [max(s, index) - index, e - index) to the returned list, with the same
\* attrs; no retained span ends past index, no returned span starts below 0,
\* no byte of a span is in both lists or in neither, and both lists have the
\* defaults of the original.
C16_SplitOffPreservesCoverage ==
  parts # None => SplitPreservesCoverage(parts[1].of, parts[1].index, al, parts[1].new)

\* C16 witness: a list of three spans split where one span ends before the
\* index, one lies across it and one starts at it.
C16_Witness ==
  /\ parts # None
  /\ parts[1].index = 2
  /\ parts[1].of.spans = <<[start |-> 0, end |-> 1, attrs |-> "bold"],
                           [start |-> 0, end |-> 3, attrs |-> "italic"],
                           [start |-> 2, end |-> 3, attrs |-> "bold"]>>
  /\ al.spans = <<[start |-> 0, end |-> 1, attrs |-> "bold"],
                  [start |-> 0, end |-> 2, attrs |-> "italic"]>>
  /\ parts[1].new.spans = <<[start |-> 0, end |-> 1, attrs |-> "italic"],
                            [start |-> 0, end |-> 1, attrs |-> "bold"]>>

\* -------------------------------------------------------------- claims on hit
\* Pointer positions: left of, on and right of the glyphs, above, in and below
\* the bands of the visible rows.
PointerXs == -1..5
PointerYs == {-1, 0, 2, 3, 5}

\* c is a cursor on a grapheme boundary of an existing line of b.
OnBoundaryOf(b, c) ==
  /\ c.line < Len(b.lines)
  /\ c.index <= Len(b.lines[c.line + 1].text)
  /\ is_grapheme_boundary(b.lines[c.line + 1].text, c.index)

\* What hit returned, if a cursor, is on a grapheme boundary of b.
HitOnBoundary(b, hit_opt) == hit_opt # None => OnBoundaryOf(b, hit_opt[1])

\* The rows a shaper that joins every cluster of a line into one glyph (a
\* ligature) would give the lines of b that have text: one glyph over the
\* whole text, w wide, of either direction.
LigatureRuns(b) ==
  {[line_i |-> i - 1,
    text |-> b.lines[i].text,
    rtl |-> rtl,
    glyphs |-> <<[start |-> 0, end |-> Len(b.lines[i].text), x |-> 0, w |-> w,
                  rtl |-> rtl]>>,
    line_y |-> b.metrics.font_size] :
     i \in {k \in 1..Len(b.lines) : b.lines[k].text # << >>},
     w \in {2, 3, 5},
     rtl \in BOOLEAN}

CursorLineRtl(b) == first_strong_rtl(b.lines[b.cursor.line + 1].text, 1)

\* Left and Right act on b as the logical moves the direction of the cursor's
\* line gives them.
LeftRightFollowDirection(b) ==
  LET towards_start == [kind |-> "Previous"]
      towards_end == [kind |-> "Next"]
  IN /\ action(b, [kind |-> "Left"]) =
          action(b, IF CursorLineRtl(b) THEN towards_end ELSE towards_start)
     /\ action(b, [kind |-> "Right"]) =
          action(b, IF CursorLineRtl(b) THEN towards_start ELSE towards_end)

\* C18: in every state reachable by TextActions, Left has the effect of
\* Previous when the cursor's line is left-to-right and of Next when it is
\* right-to-left, and Right the opposite.
C18_LeftRightFollowDirection ==
  (~fault /\ cursor_line_ok(Buf)) => LeftRightFollowDirection(Buf)

\* --------------------------------------------------------- claims on Up, Down
\* The cursor positions of one visual row: the start of each of its glyphs and
\* the end of its last one; offset 0 for a row without glyphs.
RowPositions(row) ==
  IF Len(row.glyphs) = 0 THEN {0}
  ELSE {row.glyphs[g].start : g \in 1..Len(row.glyphs)}
         \cup {row.glyphs[Len(row.glyphs)].end}

\* The rows (0-based) of a layout on which index is the start of a glyph, and
\* those on which it is a position at all.
RowsStartingAt(layout, index) ==
  {r \in 0..(Len(layout) - 1) :
     \E g \in 1..Len(layout[r + 1].glyphs) : layout[r + 1].glyphs[g].start = index}

RowsHolding(layout, index) ==
  {r \in 0..(Len(layout) - 1) : index \in RowPositions(layout[r + 1])}

\* The visual row the cursor is on: the row with the glyph that starts at its
\* index, else (at the end of the text) the row that ends there.
VisualRow(layout, index) ==
  LET rows == IF RowsStartingAt(layout, index) # {}
              THEN RowsStartingAt(layout, index)
              ELSE RowsHolding(layout, index)
  IN CHOOSE r \in rows : \A q \in rows : q <= r

\* nb has its cursor on row (0-based) of line (0-based), which is laid out.
LandsOn(nb, line, row) ==
  /\ ~nb.fault
  /\ nb.cursor.line = line
  /\ nb.lines[line + 1].layout_opt # None
  /\ row < Len(nb.lines[line + 1].layout_opt[1])
  /\ nb.cursor.index \in RowPositions(nb.lines[line + 1].layout_opt[1][row + 1])

\* Down from row r of a layout lands one row below, Up one row above; at the
\* last row of the last line and at row 0 of line 0 nothing is required.
OneRowDown(b, layout, r) ==
  LET nb == action(b, [kind |-> "Down"])
  IN IF r + 1 < Len(layout) THEN LandsOn(nb, b.cursor.line, r + 1)
     ELSE b.cursor.line + 1 < Len(b.lines) => LandsOn(nb, b.cursor.line + 1, 0)

OneRowUp(b, layout, r) ==
  LET nb == action(b, [kind |-> "Up"])
  IN IF r > 0 THEN LandsOn(nb, b.cursor.line, r - 1)
     ELSE b.cursor.line > 0 =>
            /\ ~nb.fault
            /\ nb.lines[b.cursor.line].layout_opt # None
            /\ LandsOn(nb, b.cursor.line - 1,
                       Len(nb.lines[b.cursor.line].layout_opt[1]) - 1)

\* The cursor of b is a position of a row of its line, which is laid out.
OnLaidOutRow(b) ==
  /\ layout_cursor_ok(b, b.cursor)
  /\ RowsHolding(b.lines[b.cursor.line + 1].layout_opt[1], b.cursor.index) # {}

\* C19: for every cursor position on a laid-out line, the first glyph of a row
\* included, Down lands on the next row of the same line, or on row 0 of the
\* next line from the last row; Up lands on the previous row, or on the last
\* row of the previous line from row 0.
C19_UpDownMoveOneRow ==
  (~fault /\ OnLaidOutRow(Buf)) =>
    /\ OneRowDown(Buf, lines[cursor.line + 1].layout_opt[1],
                  VisualRow(lines[cursor.line + 1].layout_opt[1], cursor.index))
    /\ OneRowUp(Buf, lines[cursor.line + 1].layout_opt[1],
                VisualRow(lines[cursor.line + 1].layout_opt[1], cursor.index))

\* ------------------------------------------------- claims on PageUp, PageDown
\* The rows a shaping pass counts: those of the lines from line i on, taken
\* whole, until n rows are counted.
RECURSIVE RowsCounted(_, _, _, _)
RowsCounted(b, i, total, n) ==
  IF i > Len(b.lines) \/ total >= n THEN total
  ELSE RowsCounted(b, i + 1,
                   total + Len(shape_layout(b.lines[i].text,
                                            first_strong_rtl(b.lines[i].text, 1),
                                            b.metrics.font_size, b.width)),
                   n)

\* scroll as a shaping pass leaves it when it was set to target.
ClampedByShapingPass(b, target) ==
  Max(0, Min(RowsCounted(b, 1, 0, target + lines_visible(b)) - (lines_visible(b) - 1),
             target))

\* The action of kind, applied to b, keeps the cursor and the selection anchor
\* and takes scroll to the clamped target.
PagesTo(b, kind, target) ==
  LET nb == action(b, [kind |-> kind])
  IN /\ ~nb.fault
     /\ nb.cursor = b.cursor
     /\ nb.select_opt = b.select_opt
     /\ nb.scroll = ClampedByShapingPass(b, target)

\* C20: PageUp and PageDown keep the cursor and the selection anchor; scroll
\* becomes scroll minus (PageUp) or plus (PageDown) height / line_height,
\* clamped by a shaping pass.
C20_PageKeepsCursor ==
  ~fault =>
    \A b \in WithDrags :
      /\ PagesTo(b, "PageUp", b.scroll - lines_visible(b))
      /\ PagesTo(b, "PageDown", b.scroll + lines_visible(b))

\* C20 witness: the cursor is away from the start, the viewport shows at
\* least one row, PageDown scrolls a whole viewport down and PageUp a whole
\* viewport up, and a PageDown further on is cut short by the clamp.
C20_Witness ==
  /\ ~fault
  /\ cursor # TextCursor_new(0, 0)
  /\ lines_visible(Buf) >= 1
  /\ action(Buf, [kind |-> "PageDown"]).scroll = scroll + lines_visible(Buf)
  /\ action(Buf, [kind |-> "PageUp"]).scroll = scroll - lines_visible(Buf)
  /\ action(action(Buf, [kind |-> "PageDown"]), [kind |-> "PageDown"]).scroll
       < scroll + 2 * lines_visible(Buf)

\* --------------------------------------------------------- claims on Click
\* Click{x, y} on b: no selection anchor afterwards, the cursor where hit puts
\* it, or where it was when hit returns none.
ClickFollowsHit(b, x, y, hit_opt) ==
  LET nb == action(b, [kind |-> "Click", x |-> x, y |-> y])
  IN /\ ~nb.fault
     /\ nb.select_opt = None
     /\ nb.cursor = IF hit_opt # None THEN hit_opt[1] ELSE b.cursor

\* C21: Click{x, y} leaves the selection anchor absent, sets the cursor to
\* hit(x, y) when hit returns a cursor and leaves it unchanged when hit
\* returns none.
C21_ClickFollowsHit ==
  ~fault =>
    \A b \in WithDrags : \A x \in PointerXs, y \in PointerYs :
      ClickFollowsHit(b, x, y, hit(b, x, y))

\* C21 witness: a Drag has set an anchor, a Click on the visible row moves the
\* cursor and removes the anchor, and a Click below every row leaves the
\* cursor where it is.
C21_Witness ==
  /\ ~fault
  /\ hit(Buf, 1, 0) # None
  /\ hit(Buf, 1, 0) # Some(cursor)
  /\ hit(Buf, 1, 5) = None
  /\ \E b \in WithDrags :
       /\ b.select_opt # None
       /\ action(b, [kind |-> "Click", x |-> 1, y |-> 0]).select_opt = None
       /\ action(b, [kind |-> "Click", x |-> 1, y |-> 0]).cursor # b.cursor
       /\ action(b, [kind |-> "Click", x |-> 1, y |-> 5]).cursor = b.cursor

\* ---------------------------------------------------------- claims on Drag
\* The cursor is where the Drag recorded in last took it: hit does not read
\* the cursor or the anchor, so it gives now what it gave before the Drag.
CursorFollowsDrag(hit_opt) ==
  cursor = IF hit_opt # None THEN hit_opt[1] ELSE pre.cursor

\* C22: after every Drag of a run of consecutive Drag actions the selection
\* anchor is the cursor position held before the first Drag of the run, and
\* the cursor is where hit(x, y) puts it.
C22_DragAnchorsAtRunStart ==
  (~fault /\ last.kind = "Drag") =>
    /\ select_opt = Some(last.first)
    /\ CursorFollowsDrag(hit(Buf, last.x, last.y))

\* C22, amended: after every Drag of a run that began without an anchor the
\* anchor is the cursor position held before the first Drag of the run; in a
\* run that began with an anchor the anchor is the one it began with; the
\* cursor is where hit(x, y) puts it, and where it was when hit returns none.
C22_DragKeepsAnchor ==
  (~fault /\ last.kind = "Drag") =>
    /\ select_opt = IF last.anchor = None THEN Some(last.first) ELSE last.anchor
    /\ CursorFollowsDrag(hit(Buf, last.x, last.y))

\* C22 witness: the second or a later Drag of a run that began without an
\* anchor; the cursor has left the position the run began at, where the anchor
\* still is.
C22_Witness ==
  /\ ~fault
  /\ last.kind = "Drag"
  /\ last.anchor = None
  /\ pre.cursor # last.first
  /\ cursor # pre.cursor
  /\ select_opt = Some(last.first)

\* ------------------------------------------------------ claims on shape_until
\* Row budgets: none, negative, and up to more rows than any document has.
RowBudgets == -1..5

\* The rows of the first k lines of b at its width and font size.
RECURSIVE PrefixRows(_, _)
PrefixRows(b, k) ==
  IF k = 0 THEN 0
  ELSE PrefixRows(b, k - 1)
       + Len(shape_layout(b.lines[k].text, first_strong_rtl(b.lines[k].text, 1),
                          b.metrics.font_size, b.width))

\* The lines a lazy pass with budget n visits: the shortest prefix whose rows
\* reach n, every line when none does.
LinesVisited(b, n) ==
  LET enough == {k \in 0..Len(b.lines) : PrefixRows(b, k) >= n}
  IN IF enough = {} THEN Len(b.lines) ELSE CHOOSE k \in enough : \A m \in enough : k <= m

\* r is what a lazy shape_until(n) returns on b when it visits the first k
\* lines: those are shaped and laid out, the others are as they were, and the
\* rows of the visited lines are returned.
IsLazyPass(b, n, k, r) ==
  /\ ~r.b.fault
  /\ Len(r.b.lines) = Len(b.lines)
  /\ \A i \in 1..k : r.b.lines[i].shape_opt # None /\ r.b.lines[i].layout_opt # None
  /\ \A i \in (k + 1)..Len(b.lines) : r.b.lines[i] = b.lines[i]
  /\ r.total = PrefixRows(b, k)
  /\ n <= 0 => (k = 0 /\ r.total = 0)

\* C23: shape_until(n) visits the lines in order from line 0 and stops before
\* the first line at which the rows accumulated are >= n; no later line has
\* its shape or layout cache changed; it returns the rows of the lines it
\* visited, and for n <= 0 visits none and returns 0.
C23_ShapeUntilIsLazy ==
  ~fault => \A n \in RowBudgets : IsLazyPass(Buf, n, LinesVisited(Buf, n), shape_until(Buf, n))

\* C23 witness: two unshaped lines; shape_until(1) shapes the first, which
\* gives the row asked for, and leaves the second unshaped.
C23_Witness ==
  /\ ~fault
  /\ Len(lines) = 2
  /\ lines[1].shape_opt = None
  /\ lines[2].shape_opt = None
  /\ shape_until(Buf, 1).b.lines[1].shape_opt # None
  /\ shape_until(Buf, 1).b.lines[2].shape_opt = None
  /\ shape_until(Buf, 1).total >= 1

\* ------------------------------------------------ claims on shape_until_cursor
\* Values scroll may hold before the call: negative, inside and past the end
\* of every document.
PriorScrolls == -2..6

\* The rows (0-based) of a layout that show a cursor at index: those with a
\* glyph whose bytes start at, end at or surround it, and a row without glyphs
\* for index 0.
RowsShowing(layout, index) ==
  {r \in 0..(Len(layout) - 1) :
     \/ Len(layout[r + 1].glyphs) = 0 /\ index = 0
     \/ \E g \in 1..Len(layout[r + 1].glyphs) :
          /\ layout[r + 1].glyphs[g].start <= index
          /\ index <= layout[r + 1].glyphs[g].end}

\* The rows of the document, counted from row 0 of line 0, that show the
\* cursor of b; its line is laid out.
CursorGlobalRows(b) ==
  {PrefixRows(b, b.cursor.line) + r :
     r \in RowsShowing(b.lines[b.cursor.line + 1].layout_opt[1], b.cursor.index)}

\* b shows its cursor on a row of the viewport.
CursorInView(b) ==
  /\ ~b.fault
  /\ b.lines[b.cursor.line + 1].layout_opt # None
  /\ \E r \in CursorGlobalRows(b) : b.scroll <= r /\ r < b.scroll + lines_visible(b)

\* Viewports: a wrap width of one glyph per row or of two, a height of one
\* row or of two.
ViewSizes == {0, 4} \X {3, 6}

\* C24: after shape_until_cursor, with at least one visible row, the global
\* visual row r of the cursor satisfies scroll <= r < scroll + visible rows,
\* whatever scroll was before and wherever the cursor is.
C24_CursorInView ==
  (~fault /\ cursor_line_ok(Buf)) =>
    \A z \in ViewSizes, s \in PriorScrolls :
      CursorInView(shape_until_cursor([set_size(Buf, z[1], z[2]) EXCEPT !.scroll = s]))

\* ------------------------------------------- claims on set_size, set_metrics
\* Wrap widths and metrics the calls are made with.
NewWidths == {0, 2, 4, 6}
NewHeights == {0, 3, 6}
NewMetrics == MetricsInputs \cup {[font_size |-> 1, line_height |-> 3]}

\* nb is b with every line that was shaped still holding its shape, and laid
\* out at the new font size and width.
KeepsShapes(b, nb, new_font_size, new_width) ==
  /\ ~nb.fault
  /\ Len(nb.lines) = Len(b.lines)
  /\ \A i \in 1..Len(b.lines) :
       b.lines[i].shape_opt # None =>
         /\ nb.lines[i].text = b.lines[i].text
         /\ nb.lines[i].shape_opt = b.lines[i].shape_opt
         /\ nb.lines[i].layout_opt =
              Some(shape_layout(b.lines[i].text, b.lines[i].shape_opt[1].rtl,
                                new_font_size, new_width))

\* nb leaves the unshaped lines of b as they are.
LeavesUnshaped(b, nb) ==
  \A i \in 1..Len(b.lines) : b.lines[i].shape_opt = None => nb.lines[i] = b.lines[i]

\* C25: set_size with a new width and set_metrics with new metrics leave
\* every shaped line shaped, with a layout for the new width and font size;
\* relayout does not shape an unshaped line; set_size and set_metrics with the
\* values the buffer has change nothing.
C25_RelayoutKeepsShape ==
  ~fault =>
    /\ \A w \in NewWidths \ {width}, h \in NewHeights :
         KeepsShapes(Buf, set_size(Buf, w, h), metrics.font_size, w)
    /\ \A m \in NewMetrics \ {metrics} :
         KeepsShapes(Buf, set_metrics(Buf, m), m.font_size, width)
    /\ LeavesUnshaped(Buf, relayout(Buf))
    /\ set_size(Buf, width, height) = Buf
    /\ set_metrics(Buf, metrics) = Buf

\* C25 witness: a shaped line whose rows change with the width next to an
\* unshaped line, which relayout leaves unshaped.
C25_Witness ==
  /\ ~fault
  /\ Len(lines) = 2
  /\ lines[1].shape_opt # None
  /\ lines[2].shape_opt = None
  /\ lines[2].text # << >>
  /\ relayout([Buf EXCEPT !.width = 0]).lines[1].layout_opt # lines[1].layout_opt
  /\ relayout([Buf EXCEPT !.width = 0]).lines[1].shape_opt = lines[1].shape_opt
  /\ relayout([Buf EXCEPT !.width = 0]).lines[2].shape_opt = None

\* ----------------------------------------------------- claims on layout_runs
\* The laid-out rows of b in document order, from line i (1-based) up to the
\* first line whose shape or layout cache is absent.
RECURSIVE LaidOutRows(_, _)
LaidOutRows(b, i) ==
  IF i > Len(b.lines) THEN << >>
  ELSE IF b.lines[i].shape_opt = None \/ b.lines[i].layout_opt = None THEN << >>
  ELSE [r \in 1..Len(b.lines[i].layout_opt[1]) |->
          [line_i |-> i - 1, row |-> r - 1,
           glyphs |-> b.lines[i].layout_opt[1][r].glyphs]]
       \o LaidOutRows(b, i + 1)

\* The rows whose baseline font_size + k * line_height is at most height.
RowsThatFit(b) ==
  IF b.height < b.metrics.font_size THEN 0
  ELSE (b.height - b.metrics.font_size) \div b.metrics.line_height + 1

\* runs is rows without its first `scroll` rows, cut to the rows that fit, the
\* k-th with baseline font_size + k * line_height.
IsVisiblePartOf(b, runs, rows) ==
  /\ Len(runs) = Min(Max(0, Len(rows) - Max(0, b.scroll)), RowsThatFit(b))
  /\ \A k \in 0..(Len(runs) - 1) :
       /\ runs[k + 1].line_i = rows[Max(0, b.scroll) + k + 1].line_i
       /\ runs[k + 1].glyphs = rows[Max(0, b.scroll) + k + 1].glyphs
       /\ runs[k + 1].text = b.lines[runs[k + 1].line_i + 1].text
       /\ runs[k + 1].line_y = b.metrics.font_size + k * b.metrics.line_height
       /\ runs[k + 1].line_y <= b.height

\* The buffer in viewports of one to three rows, at one or two glyphs a row,
\* as set_size leaves it, then scrolled by one row, or with the cursor's line
\* edited (its caches are absent).
Resized(b) == {set_size(b, z[1], z[2]) : z \in {0, 4} \X {3, 6, 9}}
Viewed(b) ==
  {b} \cup Resized(b)
      \cup {action(v, [kind |-> "Scroll", lines |-> 1]) : v \in Resized(b)}
      \cup {action(v, [kind |-> "Backspace"]) : v \in Resized(b)}

\* C26: layout_runs yields the laid-out rows in document order, from the
\* row after the first `scroll` rows on, the k-th yielded row with baseline
\* font_size + k * line_height, none with a baseline below height, and none
\* from the first line without shape or layout cache on.
C26_LayoutRunsInOrder ==
  (~fault /\ cursor_line_ok(Buf)) =>
    \A b \in Viewed(Buf) :
      ~b.fault => IsVisiblePartOf(b, layout_runs(b), LaidOutRows(b, 1))

\* C26 witness: three rows fit the viewport, scroll is 1, and layout_runs
\* yields rows of two lines, the first of them row 1 of line 0.
C26_Witness ==
  /\ ~fault
  /\ cursor_line_ok(Buf)
  /\ \E b \in Viewed(Buf) :
       /\ ~b.fault
       /\ b.scroll = 1
       /\ Len(layout_runs(b)) >= 2
       /\ layout_runs(b)[1].line_i = 0
       /\ layout_runs(b)[2].line_i = 1
       /\ layout_runs(b)[2].line_y = b.metrics.font_size + b.metrics.line_height

\* ------------------------------------------------- claims on absent caches
\* The actions that project the cursor onto the layout of its line.
RowActions == {[kind |-> k] : k \in {"Up", "Down", "Home", "End"}}

\* nb is a buffer an operation completed on, with the cursor and lines
\* invariants.
CompletedNormally(nb) ==
  /\ ~nb.fault
  /\ Len(nb.lines) >= 1
  /\ CursorAddressesText(nb)

\* C27: Up, Down, Home and End applied directly after Insert, Enter,
\* Backspace, Delete or set_text, with no shaping pass in between, complete
\* without a fault and leave the cursor on existing text and the lines
\* non-empty.
C27_NoFaultWithoutCaches ==
  (~fault /\ last.kind \in {"Insert", "Enter", "Backspace", "Delete", "set_text"}) =>
    \A a \in RowActions : CompletedNormally(action(Buf, a))

\* ------------------------------------------------ claims on Previous, Next
\* The grapheme boundaries of a text, as byte offsets.
Boundaries(text) == {i \in 0..Len(text) : is_grapheme_boundary(text, i)}

\* The nearest boundary before and after index.
BoundaryBefore(text, index) ==
  CHOOSE i \in Boundaries(text) :
    i < index /\ \A j \in Boundaries(text) : j < index => j <= i
BoundaryAfter(text, index) ==
  CHOOSE i \in Boundaries(text) :
    i > index /\ \A j \in Boundaries(text) : j > index => i <= j

\* Where Previous and Next take the cursor of b by the claim.
PreviousTarget(b) ==
  IF b.cursor.index > 0
  THEN TextCursor_new(b.cursor.line,
                      BoundaryBefore(b.lines[b.cursor.line + 1].text, b.cursor.index))
  ELSE IF b.cursor.line > 0
  THEN TextCursor_new(b.cursor.line - 1, Len(b.lines[b.cursor.line].text))
  ELSE b.cursor

NextTarget(b) ==
  IF b.cursor.index < Len(b.lines[b.cursor.line + 1].text)
  THEN TextCursor_new(b.cursor.line,
                      BoundaryAfter(b.lines[b.cursor.line + 1].text, b.cursor.index))
  ELSE IF b.cursor.line + 1 < Len(b.lines)
  THEN TextCursor_new(b.cursor.line + 1, 0)
  ELSE b.cursor

MovesOneCluster(b) ==
  /\ action(b, [kind |-> "Previous"]).cursor = PreviousTarget(b)
  /\ action(b, [kind |-> "Next"]).cursor = NextTarget(b)

\* C28: inside a line Previous and Next move the cursor by one grapheme
\* cluster; Previous at (l, 0), l > 0, goes to the end of line l - 1 and Next
\* at the end of line l, l + 1 < lines.len(), to (l + 1, 0); Previous at
\* (0, 0) and Next at the end of the last line leave the cursor unchanged.
C28_PreviousNextMoveOneCluster ==
  (~fault /\ CursorAddressesText(Buf)) => MovesOneCluster(Buf)

\* ---------------------------------------------------------- claims on Color
\* C29: a Color made by rgba(r, g, b, a) has r() = r, g() = g, b() = b and
\* a() = a, and rgb(r, g, b) is rgba(r, g, b, 0xFF).
C29_ColorRoundTrip ==
  /\ Color_r(color) = made.r
  /\ Color_g(color) = made.g
  /\ Color_b(color) = made.b
  /\ Color_a(color) = made.a
  /\ made.fn = "rgb" => color = Color_rgba(made.r, made.g, made.b, 255)

\* C29 witness: rgba made a colour of four different components, which the
\* getters return.
C29_Witness ==
  /\ made = [fn |-> "rgba", r |-> 1, g |-> 127, b |-> 128, a |-> 64]
  /\ Color_r(color) = 1
  /\ Color_g(color) = 127
  /\ Color_b(color) = 128
  /\ Color_a(color) = 64

\* ---------------------------------------------------------- claims on redraw
\* b once the application has processed a redraw: it sets the public field
\* redraw to false.
Processed(b) == [b EXCEPT !.redraw = FALSE]

\* An action that took b to nb and changed the cursor or the content of a
\* line left redraw set.
ChangeAsksRedraw(b, nb) ==
  (~nb.fault /\ (nb.cursor # b.cursor \/ Content(nb) # Content(b))) => nb.redraw

\* C30: every TextAction that changes the cursor position or the content of
\* a line, Insert, Enter, Backspace and Delete included, returns with redraw
\* set to true.
C30_ChangeSetsRedraw ==
  ~fault =>
    \A a \in BoundedActions : ChangeAsksRedraw(Processed(Buf), action(Processed(Buf), a))

\* ------------------------------------- claims on layout_cursor, set_layout_cursor
\* The (row, glyph) positions in range on line (0-based) of b, which is laid
\* out: every glyph of every row, and glyph 0 of a row without glyphs.
PositionsInRange(b, line) ==
  LET layout == b.lines[line + 1].layout_opt[1]
  IN UNION {{TextLayoutCursor_new(line, r, g) :
               g \in 0..(Max(1, Len(layout[r + 1].glyphs)) - 1)} :
            r \in 0..(Len(layout) - 1)}

\* set_layout_cursor(layout_cursor(c)) gives c back.
CursorRoundTrip(b) ==
  LET nb == set_layout_cursor(b, layout_cursor(b, b.cursor))
  IN ~nb.fault /\ nb.cursor = b.cursor

\* layout_cursor of the cursor set_layout_cursor(p) sets is p.
PositionRoundTrip(b, p) ==
  LET nb == set_layout_cursor(b, p)
  IN ~nb.fault /\ layout_cursor(nb, nb.cursor) = p

\* C31: on a laid-out line, set_layout_cursor(layout_cursor(c)) leaves a
\* cursor c whose index is a glyph start or a row end equal to c;
\* layout_cursor of the cursor set by set_layout_cursor(p) is p for every
\* (row, glyph) position p in range, glyph 0 of a wrapped row included; a
\* cursor matching no glyph boundary projects to row 0, glyph 0.
C31_LayoutCursorInverse ==
  (~fault /\ layout_cursor_ok(Buf, cursor)) =>
    /\ IF RowsHolding(lines[cursor.line + 1].layout_opt[1], cursor.index) # {}
       THEN CursorRoundTrip(Buf)
       ELSE layout_cursor(Buf, cursor) = TextLayoutCursor_new(cursor.line, 0, 0)
    /\ \A p \in PositionsInRange(Buf, cursor.line) : PositionRoundTrip(Buf, p)

\* ---------------------------------------------------------------------------
\* Home and End on a wrapped line
\* ---------------------------------------------------------------------------

\* The index Home and End are to reach on a row: the start of its first glyph
\* and the end of its last one (0 on a row without glyphs).
RowHome(row) == IF Len(row.glyphs) = 0 THEN 0 ELSE row.glyphs[1].start

RowEnd(row) == IF Len(row.glyphs) = 0 THEN 0 ELSE row.glyphs[Len(row.glyphs)].end

\* The action a (Home or End) takes the cursor of b to index on its own line.
GoesTo(b, a, index) ==
  LET nb == action(b, a)
  IN ~nb.fault /\ nb.cursor = TextCursor_new(b.cursor.line, index)

\* A second application of a leaves the cursor where the first put it.
Idempotent(b, a) ==
  LET nb == action(b, a)
  IN ~nb.fault /\ ~action(nb, a).fault /\ action(nb, a).cursor = nb.cursor

\* C32: for every cursor position on a laid-out line, Home puts the cursor at
\* the start of the first glyph of the visual row the cursor is on and End at
\* the end of the last glyph of that row, and a second Home (or End) leaves
\* the cursor where the first put it.
C32_HomeEndStayOnRow ==
  (~fault /\ OnLaidOutRow(Buf)) =>
    LET layout == lines[cursor.line + 1].layout_opt[1]
        row == layout[VisualRow(layout, cursor.index) + 1]
    IN /\ GoesTo(Buf, [kind |-> "Home"], RowHome(row))
       /\ GoesTo(Buf, [kind |-> "End"], RowEnd(row))
       /\ Idempotent(Buf, [kind |-> "Home"])
       /\ Idempotent(Buf, [kind |-> "End"])

\* ---------------------------------------------------------------------------
\* Navigation runs: Next, or Previous, applied again and again
\* ---------------------------------------------------------------------------

\* An editing session that at some point turns into a run of one navigation
\* action: NavStart fixes the action in last (and the content and cursor the
\* run starts from in pre), and from then on NavStep, the only step left,
\* applies it.  The caller of a run keeps calling: NavStep is weakly fair.
NavKinds == {"Next", "Previous"}

InRun(kind) == last.kind = "run" /\ last.of = kind

NavEdit == last.kind # "run" /\ NextEdit

NavStart ==
  \E kind \in NavKinds :
    /\ ~fault
    /\ last.kind # "run"
    /\ Becomes(Buf)
    /\ last' = [kind |-> "run", of |-> kind]
    /\ pre' = Snapshot

NavStep ==
  /\ last.kind = "run"
  /\ ~fault
  /\ Becomes(action(Buf, [kind |-> last.of]))
  /\ UNCHANGED <<last, pre>>

NextNav == NavEdit \/ NavStart \/ NavStep

SpecNav == Init /\ [][NextNav]_vars /\ WF_vars(NavStep)

\* The cursor at the end of the last line, and at the start of the first.
AtEndOfText(b) ==
  /\ b.cursor.line + 1 = Len(b.lines)
  /\ b.cursor.index = Len(b.lines[Len(b.lines)].text)

AtStartOfText(b) == b.cursor = TextCursor_new(0, 0)

\* (line, index) of c is before that of d.
CursorBefore(c, d) == c.line < d.line \/ (c.line = d.line /\ c.index < d.index)

\* Next from b, when b is not at the end of the text, strictly advances the
\* cursor.
NextAdvances(b) ==
  LET nb == action(b, [kind |-> "Next"])
  IN ~AtEndOfText(b) => (~nb.fault /\ CursorBefore(b.cursor, nb.cursor))

\* C33: a run of Next eventually has the cursor at the end of the last line,
\* every Next of it applied before that strictly advances (line, index), and
\* a run of Previous eventually has the cursor at (0, 0).
C33_NavigationProgress ==
  /\ [](InRun("Next") => NextAdvances(Buf))
  /\ InRun("Next") ~> AtEndOfText(Buf)
  /\ InRun("Previous") ~> AtStartOfText(Buf)

\* ---------------------------------------------------------------------------
\* Enter undone by Backspace
\* ---------------------------------------------------------------------------

\* b after Enter and then Backspace.
EnterThenBackspace(b) == action(action(b, [kind |-> "Enter"]), [kind |-> "Backspace"])

\* C34: for every cursor position, Enter immediately followed by Backspace
\* gives back the number of lines, the text of every line and the cursor
\* (line, index) there were before the Enter.
C34_EnterBackspaceIdentity ==
  ~fault =>
    /\ ~EnterThenBackspace(Buf).fault
    /\ Len(EnterThenBackspace(Buf).lines) = Len(lines)
    /\ Texts(EnterThenBackspace(Buf).lines) = Texts(lines)
    /\ EnterThenBackspace(Buf).cursor = cursor

\* C34 witness: the cursor is on the first of two lines, between two of its
\* characters; Enter makes three lines of them, with the cursor at the start
\* of the second, and Backspace brings the two lines and the cursor back.
C34_Witness ==
  /\ ~fault
  /\ Texts(lines) = <<<<"a", "a">>, <<"a">>>>
  /\ cursor = TextCursor_new(0, 1)
  /\ Texts(action(Buf, [kind |-> "Enter"]).lines) = <<<<"a">>, <<"a">>, <<"a">>>>
  /\ action(Buf, [kind |-> "Enter"]).cursor = TextCursor_new(1, 0)
  /\ Texts(EnterThenBackspace(Buf).lines) = Texts(lines)
  /\ EnterThenBackspace(Buf).cursor = cursor

\* ---------------------------------------------------------------------------
\* The selection anchor under editing
\* ---------------------------------------------------------------------------

\* The selection anchor of b, when there is one, addresses a line of b and a
\* byte offset within its text.
SelectAddressesText(b) ==
  b.select_opt # None =>
    /\ b.select_opt[1].line < Len(b.lines)
    /\ b.select_opt[1].index <= Len(b.lines[b.select_opt[1].line + 1].text)

\* The actions that change the text.
EditingActions ==
  InsertActions \cup {[kind |-> "Enter"], [kind |-> "Backspace"], [kind |-> "Delete"]}

\* C35: in every state reached by pointer actions, and after any editing
\* action applied there, the selection anchor, when present, has
\* select.line < lines.len() and select.index <= the byte length of
\* lines[select.line].
C35_SelectionAnchorValid ==
  ~fault =>
    /\ SelectAddressesText(Buf)
    /\ \A a \in EditingActions :
         ~action(Buf, a).fault => SelectAddressesText(action(Buf, a))

\* ---------------------------------------------------------------------------
\* split_off and the priority of spans
\* ---------------------------------------------------------------------------

\* kept and returned, the two lists split_off(index) made of the list of,
\* answer get_span as of did: kept for the ranges that end at or before
\* index, returned, with the range moved down by index, for those that start
\* at or after it.
SplitKeepsPriority(of, index, kept, returned) ==
  \A r \in Ranges :
    /\ r[2] <= index => get_span(kept, r[1], r[2]) = get_span(of, r[1], r[2])
    /\ r[1] >= index =>
         get_span(returned, r[1] - index, r[2] - index) = get_span(of, r[1], r[2])

\* C36: after split_off(index), for every non-empty range r within
\* [0, index) get_span(r) on the retained list is get_span(r) on the original
\* list, and for every non-empty r that starts at or after index
\* get_span(r - index) on the returned list is get_span(r) on the original.
C36_SplitOffKeepsPriority ==
  parts # None => SplitKeepsPriority(parts[1].of, parts[1].index, al, parts[1].new)

\* C36 witness: two spans of different styles, the later inside the earlier,
\* both across the index; on either side of the split the later style
\* answers where both spans hold the range, the earlier where it alone does,
\* and the defaults where none does.
C36_Witness ==
  /\ parts # None
  /\ parts[1].index = 2
  /\ parts[1].of.spans = <<[start |-> 0, end |-> 3, attrs |-> "italic"],
                           [start |-> 1, end |-> 3, attrs |-> "bold"]>>
  /\ get_span(al, 1, 2) = "bold"
  /\ get_span(al, 0, 1) = "italic"
  /\ get_span(al, 0, 2) = "italic"
  /\ get_span(parts[1].new, 0, 1) = "bold"
  /\ get_span(parts[1].of, 2, 3) = "bold"
  /\ get_span(al, 2, 3) = al.defaults

====
